---------------------------- MODULE Spec2Model ----------------------------
(***************************************************************************)
(* A model of the GoKart racing game, in parts, each a specification:      *)
(*                                                                         *)
(*   Spec         the client's MultiplayerManager (multiplayer.js): the    *)
(*                connection state machine, its sockets, promises, timers  *)
(*   SpecRejoin   reconnection and the rejoin of the room, with fairness   *)
(*   SpecMessage  the handling of incoming messages of any type            *)
(*   SpecSend     the throttled sending of the local kart's pose           *)
(*   SpecSync     the remote pose buffer and its interpolation             *)
(*   SpecRace,    checkpoints and laps; race ranking (PhysicsEngine)       *)
(*   SpecRank                                                              *)
(*   SpecPhysics  the physics tick and collision resolution                *)
(*   SpecAI       the AI drivers' control synthesis (AIManager)            *)
(*   SpecGame     the Game object's states from countdown to results       *)
(*   SpecRooms    the server's rooms (GameServer) as clients come and go   *)
(*   SpecHost     the race-state requests, on the server and the client    *)
(*   SpecRemote   a game in multiplayer mode: lobby, race and its frames    *)
(*                                                                         *)
(* Each part states the units of its numbers where it declares its state.  *)
(***************************************************************************)
EXTENDS Integers, Sequences, FiniteSets, Bags, TLC

VARIABLES
    \* ---- MultiplayerManager and its environment (Spec) ----
    mgr,             \* the MultiplayerManager object's fields
    sockets,         \* the bag of WebSockets not yet closed
    staleTimers,     \* pending connect-timeout timers whose socket has closed
    reconnectTimers, \* pending reconnect back-off timers
    delays,          \* history: the delays (ms) of the back-off timers armed
                     \* since the constructor or the last onopen, in order
    lastEvent,       \* history: what the last step was ("userDisconnect" is a
                     \* disconnect() issued while connected and joined)
    \* ---- remote pose buffer (SpecSync); times in ms ----
    present,         \* this.players holds the remote player
    positionHistory, \* that player's positionHistory, in arrival order
    clock,           \* Date.now()
    interpolated,    \* what the last getInterpolatedPlayerPosition returned
    syncOp,          \* history: "query" right after that call
    \* ---- checkpoints and ranking (SpecRace) ----
    checkpoints,     \* PhysicsEngine.checkpoints
    karts,           \* per kart: x, y, raceData
    raceCall,        \* history: the checkCheckpoints calls made on one kart
                     \* since it moved (the last two events) and the raceData
                     \* before the latest call
    rankCall,        \* history: the last getRacePosition answers
    \* ---- physics tick (SpecPhysics); units stated with Scale ----
    trackBounds,     \* PhysicsEngine.trackBounds
    objects,         \* the karts handed to PhysicsEngine.update, in order
    ticks,           \* number of updates made
    frame,           \* history: the deltaTime and the karts of the last
                     \* update, as they were handed to it
    resolved,        \* history: the resolveCollision calls of the last
                     \* update, each with its arguments and result
    \* ---- AI drivers (SpecAI); units as in the physics part ----
    trackPath,       \* AIManager.trackPath
    bots,            \* AIManager.bots
    aiKarts,         \* the karts of the single-player race, player first
    aiTicks,         \* number of AIManager.update calls made
    \* ---- outbound synchronisation (SpecSend); times in ms ----
    lastSyncTime,    \* MultiplayerManager.lastSyncTime
    localKart,       \* Game.playerKart, the kart handed to sendPlayerUpdate
    sent,            \* history: the game synchronisation messages the last
                     \* step handed to an open socket
    updateTimes,     \* history: the timestamps of the last two
                     \* playerPositionUpdate messages sent
    \* ---- the reconnect callback's rejoin (SpecRejoin) ----
    joins,           \* joinRoom promises of reconnect callbacks still pending
    \* ---- the game server (SpecRooms) ----
    gameServer,      \* the GameServer object: rooms, roomCodes, players
    io,              \* per client socket: is it connected, and the
                     \* currentRoom and playerId of its connection handler
    handled,         \* history: the request handled last, whether it came
                     \* from the host of the sender's room, and what the
                     \* handler emitted
    \* ---- the Game object (SpecGame) ----
    game,            \* Game.state and Game.raceState, the karts of this.karts,
                     \* and as history the countdown intervals still running
                     \* and the finishRace calls since initializeRace
    outcome          \* history: what the last step reported, "rejoined"
                     \* (roomJoined handled) or "reconnectionFailed" (emitted)

mpVars == <<mgr, sockets, staleTimers, reconnectTimers, delays, lastEvent>>
syncVars == <<present, positionHistory, clock, interpolated, syncOp>>

raceVars == <<checkpoints, karts, raceCall, rankCall>>
physVars == <<trackBounds, objects, ticks, frame, resolved>>
aiVars == <<trackPath, bots, aiKarts, aiTicks>>
sendVars == <<lastSyncTime, localKart, sent, updateTimes>>

rejoinVars == <<joins, outcome>>

\* What the client's network code never touches.
gameVars == <<game>>

serverVars == <<gameServer, io, handled>>

offlineVars == <<raceVars, physVars, aiVars, gameVars, serverVars>>

nonMpVars == <<syncVars, offlineVars, sendVars, rejoinVars>>
nonSyncVars == <<mpVars, offlineVars, sendVars, rejoinVars>>
nonRaceVars ==
    <<mpVars, syncVars, physVars, aiVars, sendVars, rejoinVars, gameVars,
      serverVars>>
nonGameVars ==
    <<mpVars, syncVars, physVars, aiVars, sendVars, rejoinVars, serverVars>>
nonServerVars ==
    <<mpVars, syncVars, raceVars, physVars, aiVars, sendVars, rejoinVars,
      gameVars>>
nonPhysVars ==
    <<mpVars, syncVars, raceVars, aiVars, sendVars, rejoinVars, gameVars,
      serverVars>>
nonAiVars ==
    <<mpVars, syncVars, raceVars, physVars, sendVars, rejoinVars, gameVars,
      serverVars>>

vars ==
    <<mpVars, syncVars, raceVars, physVars, aiVars, sendVars, rejoinVars,
      gameVars, serverVars>>

NULL == "null"

(***************************************************************************)
(* Bounds of the model.                                                    *)
(***************************************************************************)
MaxSockets == 2          \* sockets that exist at the same time
MaxConnTimers == 1       \* connect-timeout timers pending at the same time
MaxReconnectTimers == 1  \* reconnect timers pending at the same time

RoomCodes == {"R1"}

(***************************************************************************)
(*                     MultiplayerManager (client)                        *)
(***************************************************************************)
maxReconnectAttempts == 5

\* The constructor's field values.  socket is NULL or "WebSocket"; the
\* socket it refers to is the one marked current.
MgrInit ==
    [ socket            |-> NULL,
      connected         |-> FALSE,
      roomCode          |-> NULL,
      isHost            |-> FALSE,
      connectionStatus  |-> "disconnected",
      reconnectAttempts |-> 0 ]

\* new WebSocket(url), made by the connect() of caller k: the caller awaits
\* the promise, and the 10 s timeout is armed.  A socket that has closed is
\* dropped from the bag.
NewSocket(k) ==
    [readyState |-> "CONNECTING", waiter |-> k, timer |-> TRUE, current |-> TRUE]

\* The manager together with its environment, threaded through the handlers.
World ==
    [ mgr |-> mgr, sockets |-> sockets, staleTimers |-> staleTimers,
      reconnectTimers |-> reconnectTimers, delays |-> delays ]

Install(w) ==
    /\ mgr' = w.mgr
    /\ sockets' = w.sockets
    /\ staleTimers' = w.staleTimers
    /\ w.reconnectTimers <= MaxReconnectTimers
    /\ reconnectTimers' = w.reconnectTimers
    /\ delays' = w.delays

Sockets(w) == BagToSet(w.sockets)

Replace(w, r, r2) ==
    [w EXCEPT !.sockets = (@ (-) SetToBag({r})) (+) SetToBag({r2})]

\* this.socket = null
Unreference(w) ==
    LET cur == {r \in Sockets(w) : r.current}
        dropped == IF cur = {} THEN w
                   ELSE LET c == CHOOSE r \in cur : TRUE
                        IN Replace(w, c, [c EXCEPT !.current = FALSE])
    IN [dropped EXCEPT !.mgr.socket = NULL]

\* this.socket.close(): an open or connecting socket starts closing; a
\* closing socket is left alone.
CloseSocket(w) ==
    LET cur == {r \in Sockets(w) :
                   r.current /\ r.readyState \in {"CONNECTING", "OPEN"}}
    IN IF cur = {} THEN w
       ELSE LET c == CHOOSE r \in cur : TRUE
            IN Replace(w, c, [c EXCEPT !.readyState = "CLOSING"])

\* createRoom() after its await: the room code is generated locally.
CreateRoomTail(w, code) ==
    [w EXCEPT !.mgr.roomCode = code, !.mgr.isHost = TRUE]

\* joinRoom() after its await: the request is sent and the answer awaited;
\* no field of the manager changes.
JoinRoomTail(w) == w

\* What a caller of connect() does once the promise resolves.
Resume(w, k, code) ==
    CASE k = "createRoom" -> CreateRoomTail(w, code)
      [] k = "joinRoom"   -> JoinRoomTail(w)
      [] k = "reconnect"  -> IF w.mgr.roomCode # NULL THEN JoinRoomTail(w) ELSE w
      [] OTHER            -> w

\* connect(), called by k.  With a socket at hand (or connected) the promise
\* is already resolved and the caller goes on at once; otherwise a socket is
\* created, the 10 s timeout armed, and the caller waits.
Connect(w, k, code) ==
    IF w.mgr.connected \/ w.mgr.socket # NULL
    THEN Resume(w, k, code)
    ELSE [w EXCEPT !.sockets = @ (+) SetToBag({NewSocket(k)}),
                   !.mgr.socket = "WebSocket",
                   !.mgr.connectionStatus = "connecting"]

\* The connect-timeout timers that have not fired yet.
PendingConnTimers(w) ==
    BagCardinality([r \in {x \in Sockets(w) : x.timer} |-> w.sockets[r]])
    + w.staleTimers

CanConnect(w) ==
    \/ w.mgr.connected
    \/ w.mgr.socket # NULL
    \/ /\ BagCardinality(w.sockets) < MaxSockets
       /\ PendingConnTimers(w) < MaxConnTimers

\* A socket that has closed is gone; the timer of the connect() that made it
\* stays armed, and its promise is settled.
Closed(w, r) ==
    [w EXCEPT !.sockets = @ (-) SetToBag({r}),
              !.staleTimers = IF r.timer THEN @ + 1 ELSE @]

\* socket.onopen
OnOpen(w) ==
    [w EXCEPT !.mgr.connected = TRUE,
              !.mgr.connectionStatus = "connected",
              !.mgr.reconnectAttempts = 0,
              !.delays = <<>>]

\* socket.onerror
OnError(w) == [w EXCEPT !.mgr.connectionStatus = "error"]

\* The delay of attemptReconnect's setTimeout, in ms, with reconnectAttempts
\* already counted up
ReconnectDelay(reconnectAttempts) == 2000 * reconnectAttempts

\* attemptReconnect(): count the attempt and arm the back-off timer.
AttemptReconnect(w) ==
    [w EXCEPT !.mgr.reconnectAttempts = @ + 1,
              !.mgr.connectionStatus = "reconnecting",
              !.reconnectTimers = @ + 1,
              !.delays = Append(@, ReconnectDelay(w.mgr.reconnectAttempts + 1))]

HandleDisconnectionNoLimit(w) ==
    LET d == [Unreference(w) EXCEPT !.mgr.connected = FALSE,
                                    !.mgr.connectionStatus = "disconnected"]
    IN IF d.mgr.roomCode # NULL THEN AttemptReconnect(d) ELSE d

\* handleDisconnection(), the socket's onclose handler.
HandleDisconnection(w) ==
    LET d == [Unreference(w) EXCEPT !.mgr.connected = FALSE,
                                    !.mgr.connectionStatus = "disconnected"]
    IN IF d.mgr.roomCode # NULL
          /\ d.mgr.reconnectAttempts < maxReconnectAttempts
       THEN AttemptReconnect(d)
       ELSE d

CleanupKeepRoom(w) ==
    [Unreference(w) EXCEPT !.mgr.connected = FALSE,
                           !.mgr.isHost = FALSE,
                           !.mgr.connectionStatus = "disconnected"]

\* cleanup()
Cleanup(w) ==
    [Unreference(w) EXCEPT !.mgr.connected = FALSE,
                           !.mgr.roomCode = NULL,
                           !.mgr.isHost = FALSE,
                           !.mgr.connectionStatus = "disconnected"]

---------------------------------------------------------------------------
(* The operations of the manager, its sockets and its timers. *)

MpFrame(event) ==
    /\ lastEvent' = event
    /\ sent' = <<>>
    /\ UNCHANGED <<lastSyncTime, localKart, updateTimes>>
    /\ UNCHANGED <<clock, interpolated, syncOp>>
    /\ UNCHANGED <<offlineVars, rejoinVars>>

\* A step that leaves this.players alone.
MpStep(event) ==
    /\ MpFrame(event)
    /\ UNCHANGED <<present, positionHistory>>

\* this.players = {}
ClearPlayers ==
    /\ present' = FALSE
    /\ positionHistory' = <<>>

\* connect() called by the game (startMultiplayer).
UserConnect ==
    /\ CanConnect(World)
    /\ Install(Connect(World, "connect", NULL))
    /\ MpStep("call")

\* createRoom()
CreateRoom ==
    /\ CanConnect(World)
    /\ \E code \in RoomCodes :
         Install(IF mgr.connected
                 THEN CreateRoomTail(World, code)
                 ELSE Connect(World, "createRoom", code))
    /\ MpStep("call")

\* joinRoom(roomCode)
JoinRoom ==
    /\ CanConnect(World)
    /\ Install(IF mgr.connected
               THEN JoinRoomTail(World)
               ELSE Connect(World, "joinRoom", NULL))
    /\ MpStep("call")

\* leaveRoom()
LeaveRoom ==
    /\ mgr' = [mgr EXCEPT !.roomCode = NULL, !.isHost = FALSE]
    /\ ClearPlayers
    /\ UNCHANGED <<sockets, staleTimers, reconnectTimers, delays>>
    /\ MpFrame("leaveRoom")

\* disconnect()
Disconnect ==
    /\ Install(Cleanup(IF mgr.socket # NULL THEN CloseSocket(World) ELSE World))
    /\ ClearPlayers
    /\ MpFrame(IF mgr.connected /\ mgr.roomCode # NULL
               THEN "userDisconnect" ELSE "disconnect")

\* The connection is established: onopen runs, then the awaiting caller.
SocketOpen(r) ==
    /\ r.readyState = "CONNECTING"
    /\ \E code \in RoomCodes :
         Install(Resume(OnOpen(Replace(World, r,
                                       [r EXCEPT !.readyState = "OPEN",
                                                 !.waiter = "none"])),
                        r.waiter, code))
    /\ MpStep("open")

\* The connection fails (refused, network error): onerror, which rejects
\* the promise, then onclose.
SocketFail(r) ==
    /\ r.readyState \in {"CONNECTING", "OPEN"}
    /\ Install(HandleDisconnection(OnError(Closed(World, r))))
    /\ MpStep("drop")

\* The close event of a socket: the server closed an open socket, or a
\* close() of ours completes.  A socket closed before it opened (its promise
\* may still be pending) fails, with an error event first.
SocketClose(r) ==
    /\ r.readyState \in {"OPEN", "CLOSING"}
    /\ LET c == Closed(World, r)
       IN Install(HandleDisconnection(
                    IF r.waiter = "none" THEN c ELSE OnError(c)))
    /\ MpStep(IF lastEvent = "userDisconnect" THEN "closeAfterUserDisconnect"
              ELSE IF r.readyState = "OPEN" THEN "drop" ELSE "close")

\* The 10 s timer armed by the connect() that created socket r: it closes
\* this.socket, whichever socket that is by now, and rejects its own promise.
ConnectTimeout(r) ==
    /\ r.timer
    /\ Install(IF mgr.connectionStatus = "connecting"
               THEN CloseSocket(Replace(World, r,
                                        [r EXCEPT !.timer = FALSE,
                                                  !.waiter = "none"]))
               ELSE Replace(World, r, [r EXCEPT !.timer = FALSE]))
    /\ MpStep("timer")

\* The same timer, after the socket its connect() created has closed.
StaleConnectTimeout ==
    /\ staleTimers > 0
    /\ LET t == [World EXCEPT !.staleTimers = @ - 1]
       IN Install(IF mgr.connectionStatus = "connecting"
                  THEN CloseSocket(t)
                  ELSE t)
    /\ MpStep("timer")

\* The back-off timer armed by attemptReconnect().
ReconnectTimer ==
    /\ reconnectTimers > 0
    /\ CanConnect(World)
    /\ Install(Connect([World EXCEPT !.reconnectTimers = @ - 1],
                       "reconnect", NULL))
    /\ MpStep("timer")

\* Messages from the server, delivered by an open socket.
SomeSocketOpen == \E r \in BagToSet(sockets) : r.readyState = "OPEN"

\* handleRoomCreated
RecvRoomCreated ==
    /\ SomeSocketOpen
    /\ \E code \in RoomCodes :
         mgr' = [mgr EXCEPT !.roomCode = code, !.isHost = TRUE]
    /\ UNCHANGED <<sockets, staleTimers, reconnectTimers, delays>>
    /\ MpStep("message")

\* handleRoomJoined: data.players lists the players of the room as the
\* server knows them, without any positionHistory.
RecvRoomJoined ==
    /\ SomeSocketOpen
    /\ \E code \in RoomCodes, host \in BOOLEAN :
         mgr' = [mgr EXCEPT !.roomCode = code, !.isHost = host]
    /\ present' \in BOOLEAN
    /\ positionHistory' = <<>>
    /\ UNCHANGED <<sockets, staleTimers, reconnectTimers, delays>>
    /\ MpFrame("message")

\* handleRoomLeft
RecvRoomLeft ==
    /\ SomeSocketOpen
    /\ mgr' = [mgr EXCEPT !.roomCode = NULL, !.isHost = FALSE]
    /\ ClearPlayers
    /\ UNCHANGED <<sockets, staleTimers, reconnectTimers, delays>>
    /\ MpFrame("message")

\* handlePlayerJoined, for the remote player: this.players[id] = data
RecvPlayerJoined ==
    /\ SomeSocketOpen
    /\ present' = TRUE
    /\ positionHistory' = <<>>
    /\ UNCHANGED <<mgr, sockets, staleTimers, reconnectTimers, delays>>
    /\ MpFrame("message")

\* handlePlayerLeft, for the remote player: delete this.players[id]
RecvPlayerLeft ==
    /\ SomeSocketOpen
    /\ ClearPlayers
    /\ UNCHANGED <<mgr, sockets, staleTimers, reconnectTimers, delays>>
    /\ MpFrame("message")

MpInit ==
    /\ mgr = MgrInit
    /\ sockets = EmptyBag
    /\ staleTimers = 0
    /\ reconnectTimers = 0
    /\ delays = <<>>
    /\ lastEvent = "none"

Next ==
    \/ UserConnect
    \/ CreateRoom
    \/ JoinRoom
    \/ LeaveRoom
    \/ Disconnect
    \/ \E r \in BagToSet(sockets) : SocketOpen(r)
    \/ \E r \in BagToSet(sockets) : SocketFail(r)
    \/ \E r \in BagToSet(sockets) : SocketClose(r)
    \/ \E r \in BagToSet(sockets) : ConnectTimeout(r)
    \/ StaleConnectTimeout
    \/ ReconnectTimer
    \/ RecvRoomCreated
    \/ RecvRoomJoined
    \/ RecvRoomLeft
    \/ RecvPlayerJoined
    \/ RecvPlayerLeft

---------------------------------------------------------------------------
(* Claims about the connection state machine. *)

ReconnectStarted ==
    /\ mgr'.connectionStatus = "reconnecting"
    /\ mgr'.reconnectAttempts = mgr.reconnectAttempts + 1
    /\ reconnectTimers' = reconnectTimers + 1

NoReconnectStarted ==
    /\ mgr'.connectionStatus # "reconnecting"
    /\ mgr'.reconnectAttempts = mgr.reconnectAttempts
    /\ reconnectTimers' = reconnectTimers

\* C9, first half: after a disconnect() issued while connected and joined
\* the status is 'disconnected', and the close callback that comes next
\* starts no reconnect.
UserDisconnectIsFinal ==
    /\ lastEvent' = "userDisconnect"
         => mgr'.connectionStatus = "disconnected" /\ ~mgr'.connected
    /\ lastEvent = "userDisconnect" /\ lastEvent' = "closeAfterUserDisconnect"
         => NoReconnectStarted

\* C9 as stated: after a user-initiated disconnect() the close callback
\* starts no reconnect, whereas every closure the user did not initiate
\* while roomCode is set moves the status to 'reconnecting' and schedules a
\* reconnect attempt.
C9_AsStated ==
    [][ /\ UserDisconnectIsFinal
        /\ lastEvent' = "drop" /\ mgr.roomCode # NULL => ReconnectStarted ]_vars

\* C9 as amended: after a user-initiated disconnect() the close callback
\* starts no reconnect, whereas a closure while roomCode is set and
\* reconnectAttempts < maxReconnectAttempts moves the status to
\* 'reconnecting', counts the attempt and schedules a reconnect.
C9_ReconnectUnlessUserOrExhausted ==
    [][ /\ UserDisconnectIsFinal
        /\ lastEvent' \in {"drop", "close", "closeAfterUserDisconnect"}
             /\ mgr.roomCode # NULL
             /\ mgr.reconnectAttempts < maxReconnectAttempts
           => ReconnectStarted ]_vars

\* The close callback has just run after a disconnect() that was issued
\* while connected and joined to a room.
C9_Witness ==
    /\ lastEvent = "closeAfterUserDisconnect"
    /\ mgr.connectionStatus = "disconnected"
    /\ mgr.roomCode = NULL

\* C10: 0 <= reconnectAttempts <= maxReconnectAttempts in every state, and
\* 'connected' implies a counter of 0; the counter grows only by one, in a
\* step that starts a reconnect; every socket open resets it; and with the
\* counter at maxReconnectAttempts no step schedules another reconnect.
C10_ReconnectAttemptsBounded ==
    /\ [](/\ mgr.reconnectAttempts \in 0..maxReconnectAttempts
          /\ mgr.connectionStatus = "connected" => mgr.reconnectAttempts = 0)
    /\ [][ /\ mgr'.reconnectAttempts > mgr.reconnectAttempts => ReconnectStarted
           /\ lastEvent' = "open" => mgr'.reconnectAttempts = 0
           /\ mgr.reconnectAttempts = maxReconnectAttempts
                => reconnectTimers' <= reconnectTimers ]_vars

\* The retry budget is used up: the last closure scheduled nothing.
C10_Witness ==
    /\ mgr.reconnectAttempts = maxReconnectAttempts
    /\ mgr.connectionStatus = "disconnected"
    /\ mgr.roomCode # NULL
    /\ reconnectTimers = 0
    /\ lastEvent = "drop"

\* C11: once leaveRoom() has returned, a message from the server that
\* arrives before the user calls createRoom or joinRoom again (a late
\* roomCreated, roomJoined or playerJoined included) leaves roomCode null
\* and the players map empty; stated for the message that arrives first.
C11_LeaveRoomIsFinal ==
    [][ lastEvent = "leaveRoom" /\ lastEvent' = "message"
          => mgr'.roomCode = NULL /\ ~present' ]_vars

\* The sockets of bag b that are in readyState st.
InReadyState(b, st) ==
    BagCardinality([r \in {x \in BagToSet(b) : x.readyState = st} |-> b[r]])

\* A step that opens no socket, closes none, and leaves connectionStatus,
\* connected and roomCode as they were.
WithoutEffect ==
    /\ mgr'.connectionStatus = mgr.connectionStatus
    /\ mgr'.connected = mgr.connected
    /\ mgr'.roomCode = mgr.roomCode
    /\ \A st \in {"CONNECTING", "OPEN", "CLOSING"} :
           InReadyState(sockets', st) = InReadyState(sockets, st)

\* C12: once disconnect() has run, a timer scheduled before it (the
\* reconnect back-off timer, the 10 s connect timeout) opens no socket,
\* closes none and changes none of connectionStatus, connected and
\* roomCode; stated for the timer that fires first after disconnect(), all
\* pending timers then being older than the call.
C12_NoTimerAfterDisconnect ==
    [][ (lastEvent \in {"userDisconnect", "disconnect"} /\ lastEvent' = "timer")
          => (WithoutEffect) ]_vars

\* C28 (as stated, for createRoom): createRoom gets past its await of
\* connect(), and sets roomCode, only when the manager is connected with
\* connectionStatus 'connected'.  Violated: connect() returns a resolved
\* promise whenever this.socket is set, also while that socket is still
\* connecting.
C28_ResolvedMeansConnected ==
    [][lastEvent' = "call" /\ mgr'.roomCode # mgr.roomCode
         => mgr'.connected /\ mgr'.connectionStatus = "connected"]_vars

\* What holds instead: a promise of connect() that is resolved by onopen
\* finds the manager connected; one returned at once finds a socket at
\* hand, open or not.
ResolvedMeansSocketAtHand ==
    [][/\ lastEvent' = "open"
           => mgr'.connected /\ mgr'.connectionStatus = "connected"
       /\ lastEvent' = "call" /\ mgr'.roomCode # mgr.roomCode
           => mgr'.connected \/ mgr'.socket # NULL]_vars

\* C23 (as stated): the delay before reconnect attempt k+1 is at least
\* twice the delay before attempt k, for k from 1 to
\* maxReconnectAttempts - 1.  Violated: the delay is 2000 ms times the
\* attempt's number, so it grows by 2000 ms each time.
C23_BackoffDoubles ==
    \A k \in 1..(Len(delays) - 1) : delays[k + 1] >= 2 * delays[k]

\* What holds of the delays: attempt k waits k times 2000 ms, so each
\* attempt waits longer than the one before and none longer than
\* maxReconnectAttempts times 2000 ms.
BackoffGrowsLinearly ==
    /\ Len(delays) = mgr.reconnectAttempts
    /\ \A k \in 1..Len(delays) : delays[k] = 2000 * k
    /\ Len(delays) <= maxReconnectAttempts

(***************************************************************************)
(*        The reconnect callback: connect(), then joinRoom(roomCode)       *)
(*                                                                         *)
(* The callback armed by attemptReconnect is followed past its two awaits: *)
(* the connect() it made settles, the join request it sent is answered,    *)
(* and its catch block emits 'reconnectionFailed' or not.                  *)
(***************************************************************************)
MaxJoins == 1   \* join promises of reconnect callbacks pending at a time

\* The catch block of the callback: what it emits.
Catch(w) ==
    IF w.mgr.reconnectAttempts >= maxReconnectAttempts
    THEN "reconnectionFailed"
    ELSE "none"

\* joinRoom(roomCode) called by the callback once its connect() has
\* resolved, if roomCode is still set: one more promise waits for
\* 'roomJoined', 'error' or its 10 s timeout.
JoinsAfterConnect(w) == IF w.mgr.roomCode # NULL THEN joins + 1 ELSE joins

RejoinFrame(event) ==
    /\ lastEvent' = event
    /\ sent' = <<>>
    /\ UNCHANGED <<lastSyncTime, localKart, updateTimes>>
    /\ UNCHANGED <<clock, interpolated, syncOp>>
    /\ UNCHANGED offlineVars

\* The back-off timer fires and the callback calls connect(): with a
\* socket at hand the promise is resolved at once and joinRoom follows.
ReconnectCallback ==
    /\ reconnectTimers > 0
    /\ CanConnect(World)
    /\ LET armed == [World EXCEPT !.reconnectTimers = @ - 1]
       IN /\ Install(Connect(armed, "reconnect", NULL))
          /\ joins' = IF mgr.connected \/ mgr.socket # NULL
                       THEN JoinsAfterConnect(armed)
                       ELSE joins
    /\ joins' <= MaxJoins
    /\ outcome' = "none"
    /\ UNCHANGED <<present, positionHistory>>
    /\ RejoinFrame("timer")

\* The socket of the callback's connect() opens: onopen, then joinRoom.
ReconnectOpen(r) ==
    /\ r.readyState = "CONNECTING"
    /\ r.waiter = "reconnect"
    /\ LET opened == OnOpen(Replace(World, r, [r EXCEPT !.readyState = "OPEN",
                                                         !.waiter = "none"]))
       IN /\ Install(Resume(opened, "reconnect", NULL))
          /\ joins' = JoinsAfterConnect(opened)
    /\ joins' <= MaxJoins
    /\ outcome' = "none"
    /\ UNCHANGED <<present, positionHistory>>
    /\ RejoinFrame("open")

\* The socket of the callback's connect() fails, or its close (by an older
\* connect's timeout) completes: onerror rejects the promise and the catch
\* block runs, then onclose.
ReconnectFail(r) ==
    /\ r.readyState \in {"CONNECTING", "CLOSING"}
    /\ r.waiter = "reconnect"
    /\ Install(HandleDisconnection(OnError(Closed(World, r))))
    /\ outcome' = Catch(World)
    /\ UNCHANGED <<joins, present, positionHistory>>
    /\ RejoinFrame("connectFailed")

\* The 10 s timeout of the callback's connect() while still connecting:
\* the socket is closed, the promise rejects and the catch block runs.
ReconnectTimesOut(r) ==
    /\ r.timer
    /\ r.waiter = "reconnect"
    /\ mgr.connectionStatus = "connecting"
    /\ Install(CloseSocket(Replace(World, r, [r EXCEPT !.timer = FALSE,
                                                       !.waiter = "none"])))
    /\ outcome' = Catch(World)
    /\ UNCHANGED <<joins, present, positionHistory>>
    /\ RejoinFrame("timer")

\* The server accepts the join: handleRoomJoined, then the promise
\* resolves and the callback ends.
RejoinAccepted ==
    /\ joins > 0
    /\ SomeSocketOpen
    /\ \E code \in RoomCodes, host \in BOOLEAN :
         mgr' = [mgr EXCEPT !.roomCode = code, !.isHost = host]
    /\ present' \in BOOLEAN
    /\ positionHistory' = <<>>
    /\ joins' = joins - 1
    /\ outcome' = IF mgr.connected THEN "rejoined" ELSE "none"
    /\ UNCHANGED <<sockets, staleTimers, reconnectTimers, delays>>
    /\ RejoinFrame("message")

\* The server rejects the join (room not found, room full, race in
\* progress): handleError logs, the promise rejects, the catch block runs.
RejoinRefused ==
    /\ joins > 0
    /\ SomeSocketOpen
    /\ joins' = joins - 1
    /\ outcome' = Catch(World)
    /\ UNCHANGED <<mgr, sockets, staleTimers, reconnectTimers, delays>>
    /\ UNCHANGED <<present, positionHistory>>
    /\ RejoinFrame("message")

\* No answer within 10 s: the promise rejects, the catch block runs.
RejoinTimeout ==
    /\ joins > 0
    /\ joins' = joins - 1
    /\ outcome' = Catch(World)
    /\ UNCHANGED <<mgr, sockets, staleTimers, reconnectTimers, delays>>
    /\ UNCHANGED <<present, positionHistory>>
    /\ RejoinFrame("timer")

RejoinIdle ==
    /\ joins = 0
    /\ outcome = "none"

\* The user's sockets open; the reconnect callback's open or fail.  The
\* server may close an open socket at any time.
UserSocketOpens ==
    \E r \in BagToSet(sockets) : r.waiter # "reconnect" /\ SocketOpen(r)

ServerCloses ==
    \E r \in BagToSet(sockets) : r.readyState = "OPEN" /\ SocketClose(r)

ReconnectSettles ==
    \E r \in BagToSet(sockets) : ReconnectOpen(r) \/ ReconnectFail(r)

\* A connect timeout that rejects no promise of a reconnect callback.
OtherConnectTimeout ==
    \E r \in BagToSet(sockets) :
        /\ r.waiter = "reconnect" => mgr.connectionStatus # "connecting"
        /\ ConnectTimeout(r)

ConnectTimersFire ==
    \/ StaleConnectTimeout
    \/ OtherConnectTimeout
    \/ \E r \in BagToSet(sockets) : ReconnectTimesOut(r)

SocketCloseCompletes ==
    \E r \in BagToSet(sockets) :
        r.readyState = "CLOSING" /\ r.waiter # "reconnect" /\ SocketClose(r)

RejoinAnswered == RejoinAccepted \/ RejoinRefused \/ RejoinTimeout

RejoinNext ==
    \/ CreateRoom
    \/ UserSocketOpens
    \/ ServerCloses
    \/ ReconnectCallback
    \/ \E r \in BagToSet(sockets) : ReconnectOpen(r)
    \/ \E r \in BagToSet(sockets) : ReconnectFail(r)
    \/ \E r \in BagToSet(sockets) : ReconnectTimesOut(r)
    \/ OtherConnectTimeout
    \/ StaleConnectTimeout
    \/ SocketCloseCompletes
    \/ RejoinAccepted
    \/ RejoinRefused
    \/ RejoinTimeout

\* Timers expire, sockets open or fail, and join requests are answered or
\* time out.
RejoinFairness ==
    /\ WF_vars(UserSocketOpens)
    /\ WF_vars(ReconnectCallback)
    /\ WF_vars(ReconnectSettles)
    /\ WF_vars(ConnectTimersFire)
    /\ WF_vars(SocketCloseCompletes)
    /\ WF_vars(RejoinAnswered)

\* C14: every unexpected closure of the socket while the client is joined
\* to a room is eventually followed by a rejoin (roomJoined handled while
\* connected) or by a 'reconnectionFailed' event, also when the
\* reconnect's connect() succeeds and the join is rejected or times out.
\* Stated for the behaviours in which the socket eventually stops dropping,
\* so a violation is a client that ends up neither rejoined nor notified.
C14_RejoinsOrReportsFailure ==
    <>[](lastEvent # "drop")
        => ((lastEvent = "drop" /\ mgr.roomCode # NULL)
                ~> (outcome \in {"rejoined", "reconnectionFailed"}))

\* The connect() of the last allowed attempt fails.
LastAttemptFails ==
    /\ mgr.reconnectAttempts = maxReconnectAttempts
    /\ lastEvent' = "connectFailed"

Unavailable ==
    /\ outcome' = "reconnectionFailed"
    /\ mgr'.connectionStatus = "disconnected"
    /\ ~mgr'.connected
    /\ reconnectTimers' = 0

\* C15: when the connect() of attempt number maxReconnectAttempts fails,
\* 'reconnectionFailed' is emitted, the status ends as 'disconnected' with
\* no retry pending, the players map is empty and roomCode is null.
C15_ExhaustionDepartsPlayers ==
    [][ LastAttemptFails
          => (Unavailable /\ mgr'.roomCode = NULL /\ ~present') ]_vars

\* The part of C15 about the event, the status and the retry alone.
ExhaustionMakesUnavailable == [][ LastAttemptFails => (Unavailable) ]_vars

ExhaustionReached ==
    /\ outcome = "reconnectionFailed"
    /\ lastEvent = "connectFailed"
    /\ mgr.roomCode # NULL

(***************************************************************************)
(*                 Messages the client does not know                       *)
(***************************************************************************)
\* The types handleMessage has a case for.
KnownTypes ==
    {"playerJoined", "playerLeft", "roomCreated", "roomJoined", "roomLeft",
     "gameStateUpdate", "raceStarted", "raceFinished",
     "playerPositionUpdate", "chatMessage", "error"}

\* Types a server may send that have no case.
OtherTypes == {"ping", "roomUpdated", "toString", "constructor", "__proto__"}

\* this.eventHandlers: the events with a handler array of their own.  The
\* game registers none, and cleanup() empties it again.
eventHandlers == {}

\* What an object literal inherits: the properties of Object.prototype,
\* none of which is an array.
ObjectPrototype ==
    {"constructor", "toString", "toLocaleString", "valueOf", "hasOwnProperty",
     "isPrototypeOf", "propertyIsEnumerable", "__proto__"}

\* emit(event, data): this.eventHandlers[event] is looked up along the
\* prototype chain; a truthy value that is no array has no forEach, and
\* calling it throws a TypeError outside the try block.
emit(event) ==
    IF event \in eventHandlers THEN "handlersCalled"
    ELSE IF event \in ObjectPrototype THEN "TypeError"
    ELSE "nothing"

\* handleMessage({type, data}) for a type without a case: the default
\* branch warns, then emit(type, data) runs.
RecvUnknown ==
    /\ SomeSocketOpen
    /\ \E type \in OtherTypes :
         lastEvent' = IF emit(type) = "TypeError" THEN "uncaught"
                      ELSE "unknownType"
    /\ sent' = <<>>
    /\ UNCHANGED <<mgr, sockets, staleTimers, reconnectTimers, delays>>
    /\ UNCHANGED <<lastSyncTime, localKart, updateTimes>>
    /\ UNCHANGED <<syncVars, offlineVars, rejoinVars>>

MessageNext ==
    \/ CreateRoom
    \/ LeaveRoom
    \/ Disconnect
    \/ \E r \in BagToSet(sockets) : SocketOpen(r)
    \/ \E r \in BagToSet(sockets) : SocketClose(r)
    \/ StaleConnectTimeout
    \/ ReconnectTimer
    \/ RecvRoomJoined
    \/ RecvRoomLeft
    \/ RecvPlayerJoined
    \/ RecvPlayerLeft
    \/ RecvUnknown

\* C18: handleMessage on a type without a case does not throw and leaves
\* the manager's fields and the players as they were.
C18_UnknownTypesIgnored ==
    [][ lastEvent' \in {"unknownType", "uncaught"}
          => /\ lastEvent' # "uncaught"
             /\ mgr' = mgr
             /\ present' = present
             /\ positionHistory' = positionHistory ]_vars

\* The same for the types that no object inherits.
PlainUnknownTypesIgnored ==
    [][ lastEvent' = "unknownType"
          => /\ mgr' = mgr
             /\ present' = present
             /\ positionHistory' = positionHistory ]_vars

(***************************************************************************)
(*              Remote pose buffer and interpolation (client)              *)
(*                                                                         *)
(* One remote player.  Times are integers in ms.  The values the           *)
(* interpolation returns are JavaScript numbers: exact fractions n/d, with *)
(* d = 0 for the values a division by zero produces (n = 0 is NaN, n = 1   *)
(* and n = -1 are +Infinity and -Infinity).                                *)
(***************************************************************************)
interpolationDelay == 100
HistoryWindow == 500

MaxClock == 6     \* the clock runs from 0 to MaxClock * interpolationDelay
MaxHistory == 3   \* buffered samples of the remote player

Milliseconds == {k * interpolationDelay : k \in 0..MaxClock}

playerId == "me"
PlayerIds == {"me", "p2"}

\* The poses a playerPositionUpdate message may carry.
Poses ==
    { [x |-> 0,  y |-> 0,  rotation |-> 0, velocity |-> [x |-> 0,  y |-> 0]],
      [x |-> 10, y |-> 0,  rotation |-> 1, velocity |-> [x |-> 50, y |-> 0]],
      [x |-> 20, y |-> -6, rotation |-> 3, velocity |-> [x |-> 30, y |-> -40]] }

Sample(pose, ts) ==
    [x |-> pose.x, y |-> pose.y, rotation |-> pose.rotation,
     velocity |-> pose.velocity, timestamp |-> ts]

NaN == [n |-> 0, d |-> 0]

Sign(k) == IF k > 0 THEN 1 ELSE IF k < 0 THEN -1 ELSE 0

\* a / b for two integers
Divide(a, b) ==
    IF b = 0 THEN [n |-> Sign(a), d |-> 0]
    ELSE IF b < 0 THEN [n |-> -a, d |-> -b]
    ELSE [n |-> a, d |-> b]

\* Utils.lerp: start + (end - start) * factor
lerp(start, end, factor) ==
    IF factor.d = 0
    THEN IF factor.n = 0 \/ end = start
         THEN NaN
         ELSE [n |-> Sign(end - start) * factor.n, d |-> 0]
    ELSE [n |-> start * factor.d + (end - start) * factor.n, d |-> factor.d]

NoPosition == [kind |-> "null"]
Stored(sample) == [kind |-> "stored", sample |-> sample]

\* handlePlayerPositionUpdate(data): the buffer after the message
PushAndPrune(history, data, dateNow) ==
    LET pushed == Append(history, Sample(data.pose, data.timestamp))
        cutoff == dateNow - HistoryWindow
    IN SelectSeq(pushed, LAMBDA p : p.timestamp > cutoff)

\* The pairs the search loop of getInterpolatedPlayerPosition accepts.
Straddling(history, now) ==
    {i \in 1..(Len(history) - 1) :
        history[i].timestamp <= now /\ history[i + 1].timestamp >= now}

FirstOf(S) == CHOOSE i \in S : \A j \in S : i <= j

Interpolate(before, after, now) ==
    LET timeDiff == after.timestamp - before.timestamp
        factor == Divide(now - before.timestamp, timeDiff)
    IN [kind |-> "interpolated",
        x |-> lerp(before.x, after.x, factor),
        y |-> lerp(before.y, after.y, factor),
        rotation |-> lerp(before.rotation, after.rotation, factor),
        velocity |-> [x |-> lerp(before.velocity.x, after.velocity.x, factor),
                      y |-> lerp(before.velocity.y, after.velocity.y, factor)]]

\* getInterpolatedPlayerPosition(playerId)
GetInterpolatedPlayerPosition(isPresent, history, dateNow) ==
    IF ~isPresent \/ Len(history) = 0 THEN NoPosition
    ELSE LET now == dateNow - interpolationDelay
             found == Straddling(history, now)
         IN IF found = {}
            THEN Stored(history[Len(history)])
            ELSE Interpolate(history[FirstOf(found)],
                             history[FirstOf(found) + 1], now)

---------------------------------------------------------------------------
SyncStep ==
    /\ interpolated' = NoPosition
    /\ syncOp' = "none"
    /\ UNCHANGED nonSyncVars

\* handlePlayerJoined: a fresh player object, without a positionHistory
\* (an absent positionHistory and an empty one read the same everywhere).
HandlePlayerJoined ==
    /\ present' = TRUE
    /\ positionHistory' = <<>>
    /\ UNCHANGED clock
    /\ SyncStep

\* handlePlayerLeft
HandlePlayerLeft ==
    /\ present
    /\ present' = FALSE
    /\ positionHistory' = <<>>
    /\ UNCHANGED clock
    /\ SyncStep

\* handlePlayerPositionUpdate(data)
HandlePlayerPositionUpdate ==
    /\ Len(positionHistory) < MaxHistory
    /\ \E id \in PlayerIds, pose \in Poses, ts \in Milliseconds :
         positionHistory' =
             IF id = playerId \/ ~present THEN positionHistory
             ELSE PushAndPrune(positionHistory,
                               [pose |-> pose, timestamp |-> ts], clock)
    /\ UNCHANGED <<present, clock>>
    /\ SyncStep

\* Time passes.
ClockTick ==
    /\ clock < MaxClock * interpolationDelay
    /\ clock' = clock + interpolationDelay
    /\ UNCHANGED <<present, positionHistory>>
    /\ SyncStep

\* The renderer asks for the remote player's pose.
QueryPosition ==
    /\ interpolated' =
           GetInterpolatedPlayerPosition(present, positionHistory, clock)
    /\ syncOp' = "query"
    /\ UNCHANGED <<present, positionHistory, clock>>
    /\ UNCHANGED nonSyncVars

SyncInit ==
    /\ present = FALSE
    /\ positionHistory = <<>>
    /\ clock = 0
    /\ interpolated = NoPosition
    /\ syncOp = "none"

SyncNext ==
    \/ HandlePlayerJoined
    \/ HandlePlayerLeft
    \/ HandlePlayerPositionUpdate
    \/ ClockTick
    \/ QueryPosition


---------------------------------------------------------------------------
(* Claims about the pose buffer. *)

DisplayTime == clock - interpolationDelay

\* r is a + (b - a) * num / den, and lies between a and b.
IsLerpOf(r, a, b, num, den) ==
    /\ r.d > 0
    /\ r.n * den = (a * den + (b - a) * num) * r.d
    /\ (IF a <= b THEN a ELSE b) * r.d <= r.n
    /\ r.n <= (IF a <= b THEN b ELSE a) * r.d

InterpolatedBetween(a, b) ==
    LET num == DisplayTime - a.timestamp
        den == b.timestamp - a.timestamp
    IN /\ interpolated.kind = "interpolated"
       /\ IsLerpOf(interpolated.x, a.x, b.x, num, den)
       /\ IsLerpOf(interpolated.y, a.y, b.y, num, den)
       /\ IsLerpOf(interpolated.rotation, a.rotation, b.rotation, num, den)
       /\ IsLerpOf(interpolated.velocity.x, a.velocity.x, b.velocity.x, num, den)
       /\ IsLerpOf(interpolated.velocity.y, a.velocity.y, b.velocity.y, num, den)

\* C7: when the buffer holds two consecutive samples a, b with
\* a.timestamp <= T <= b.timestamp and a.timestamp < b.timestamp, where
\* T = Date.now() - interpolationDelay, the query returns for x, y, rotation
\* and both velocity components a + (b - a) * (T - a.timestamp) /
\* (b.timestamp - a.timestamp), a value between the two sampled ones.
C7_InterpolatesConsecutiveSamples ==
    syncOp = "query" =>
        \A i \in 1..(Len(positionHistory) - 1) :
            LET a == positionHistory[i]
                b == positionHistory[i + 1]
            IN a.timestamp <= DisplayTime /\ DisplayTime <= b.timestamp
                 /\ a.timestamp < b.timestamp
               => InterpolatedBetween(a, b)

OnlyOlder == \A i \in 1..Len(positionHistory) :
                 positionHistory[i].timestamp < DisplayTime
OnlyNewer == \A i \in 1..Len(positionHistory) :
                 positionHistory[i].timestamp > DisplayTime

\* C8: whatever the arrival order, when the buffered samples are all older
\* or all newer than the display time the query returns, unchanged, the
\* buffered sample with the greatest timestamp; with no buffered sample it
\* returns null.
C8_FallsBackToMostRecentSample ==
    syncOp = "query" =>
        /\ Len(positionHistory) = 0 => interpolated = NoPosition
        /\ Len(positionHistory) > 0 /\ (OnlyOlder \/ OnlyNewer) =>
             /\ interpolated.kind = "stored"
             /\ \E i \in 1..Len(positionHistory) :
                    interpolated.sample = positionHistory[i]
             /\ \A i \in 1..Len(positionHistory) :
                    positionHistory[i].timestamp <= interpolated.sample.timestamp

(***************************************************************************)
(*                  Outbound synchronisation (client)                      *)
(*                                                                         *)
(* Times are integers in ms.  The message recorded is the object handed    *)
(* to JSON.stringify.                                                      *)
(***************************************************************************)
syncInterval == 50

TimeStep == 10      \* the granularity of the clock in this part
FirstSendTime == 100
MaxSendSpan == 12   \* the clock runs to FirstSendTime + MaxSendSpan * TimeStep

\* The local kart at a pose, with the speed the physics derived.
LocalKart(pose, speed) ==
    [x |-> pose.x, y |-> pose.y, rotation |-> pose.rotation,
     physics |-> [velocityX |-> pose.velocity.x,
                  velocityY |-> pose.velocity.y,
                  speed |-> speed]]

\* Game.playerKart before a race is created: null
NoKart == [kind |-> "null"]

LocalKarts ==
    { LocalKart([x |-> 10, y |-> 0, rotation |-> 1,
                 velocity |-> [x |-> 50, y |-> 0]], 50),
      LocalKart([x |-> 20, y |-> -6, rotation |-> 3,
                 velocity |-> [x |-> 30, y |-> -40]], 50) }

\* sendMessage(type, data), with Date.now() = dateNow: the messages that
\* reach the server.  The spread of data comes last and overrides the
\* fields before it.  send() throws on a socket still connecting, which is
\* caught, and discards the message on a socket that is closing.
sendMessage(w, type, data, dateNow) ==
    IF ~w.mgr.connected \/ w.mgr.socket = NULL THEN <<>>
    ELSE LET message == data @@ [type |-> type, playerId |-> playerId,
                                 timestamp |-> dateNow]
         IN IF \E r \in Sockets(w) : r.current /\ r.readyState = "OPEN"
            THEN <<message>>
            ELSE <<>>

sendPlayerUpdateUnthrottled(w, kart, last, now, later) ==
    IF ~w.mgr.connected \/ w.mgr.roomCode = NULL \/ kart = NoKart
    THEN [lastSyncTime |-> last, sent |-> <<>>]
    ELSE LET playerData ==
                 [x |-> kart.x, y |-> kart.y, rotation |-> kart.rotation,
                  velocity |-> [x |-> kart.physics.velocityX,
                                y |-> kart.physics.velocityY],
                  speed |-> kart.physics.speed,
                  timestamp |-> now]
         IN [lastSyncTime |-> now,
             sent |-> sendMessage(w, "playerPositionUpdate", playerData,
                                  later)]

\* sendPlayerUpdate(kart), with this.lastSyncTime = last; now is the
\* Date.now() it reads, later the one sendMessage reads.
sendPlayerUpdate(w, kart, last, now, later) ==
    IF ~w.mgr.connected \/ w.mgr.roomCode = NULL \/ kart = NoKart
    THEN [lastSyncTime |-> last, sent |-> <<>>]
    ELSE IF now - last < syncInterval
    THEN [lastSyncTime |-> last, sent |-> <<>>]
    ELSE LET playerData ==
                 [x |-> kart.x, y |-> kart.y, rotation |-> kart.rotation,
                  velocity |-> [x |-> kart.physics.velocityX,
                                y |-> kart.physics.velocityY],
                  speed |-> kart.physics.speed,
                  timestamp |-> now]
         IN [lastSyncTime |-> now,
             sent |-> sendMessage(w, "playerPositionUpdate", playerData,
                                  later)]

\* The last two of the timestamps sent.
LastTwo(times) ==
    IF Len(times) <= 2 THEN times ELSE SubSeq(times, Len(times) - 1, Len(times))

---------------------------------------------------------------------------
\* Game.updateGame in a multiplayer race: sendPlayerUpdate(this.playerKart),
\* once per frame.
SendPlayerUpdate ==
    /\ \E later \in {clock, clock + 1} :
         LET done == sendPlayerUpdate(World, localKart, lastSyncTime,
                                      clock, later)
         IN /\ lastSyncTime' = done.lastSyncTime
            /\ sent' = done.sent
            /\ updateTimes' =
                   LastTwo(updateTimes \o
                           [i \in 1..Len(done.sent) |-> done.sent[i].timestamp])
    /\ lastEvent' = "sendPlayerUpdate"
    /\ UNCHANGED <<mgr, sockets, staleTimers, reconnectTimers, delays, localKart>>
    /\ UNCHANGED <<syncVars, offlineVars, rejoinVars>>

\* The race starts, and the physics moves the local kart.
Drive ==
    /\ \E kart \in LocalKarts : kart # localKart /\ localKart' = kart
    /\ lastEvent' = "drive"
    /\ sent' = <<>>
    /\ UNCHANGED <<mgr, sockets, staleTimers, reconnectTimers, delays>>
    /\ UNCHANGED <<lastSyncTime, updateTimes>>
    /\ UNCHANGED <<syncVars, offlineVars, rejoinVars>>

\* Time passes between two frames.
Elapse ==
    /\ \E d \in {2 * TimeStep, 3 * TimeStep} :
         /\ clock + d <= FirstSendTime + MaxSendSpan * TimeStep
         /\ clock' = clock + d
    /\ lastEvent' = "elapse"
    /\ sent' = <<>>
    /\ UNCHANGED <<mgr, sockets, staleTimers, reconnectTimers, delays>>
    /\ UNCHANGED <<lastSyncTime, localKart, updateTimes>>
    /\ UNCHANGED <<present, positionHistory, interpolated, syncOp>>
    /\ UNCHANGED <<offlineVars, rejoinVars>>

SendIdle ==
    /\ lastSyncTime = 0
    /\ localKart = NoKart
    /\ sent = <<>>
    /\ updateTimes = <<>>

SendNext ==
    \/ CreateRoom
    \/ LeaveRoom
    \/ Disconnect
    \/ \E r \in BagToSet(sockets) : SocketOpen(r)
    \/ \E r \in BagToSet(sockets) : SocketClose(r)
    \/ RecvRoomJoined
    \/ SendPlayerUpdate
    \/ Drive
    \/ Elapse

---------------------------------------------------------------------------
(* Claims about the outbound synchronisation. *)

\* C13: however often sendPlayerUpdate is called, two playerPositionUpdate
\* messages sent one after the other are at least syncInterval apart; each
\* carries the time of the call as its timestamp and the local kart's x,
\* y, rotation and velocity; and none is sent while the manager is not
\* connected or roomCode is null.
C13_UpdatesThrottledAndStamped ==
    /\ Len(updateTimes) = 2 => updateTimes[2] - updateTimes[1] >= syncInterval
    /\ \A i \in 1..Len(sent) :
         /\ sent[i].type = "playerPositionUpdate"
         /\ sent[i].timestamp = clock
         /\ localKart # NoKart
         /\ sent[i].x = localKart.x
         /\ sent[i].y = localKart.y
         /\ sent[i].rotation = localKart.rotation
         /\ sent[i].velocity = [x |-> localKart.physics.velocityX,
                                y |-> localKart.physics.velocityY]
         /\ mgr.connected
         /\ mgr.roomCode # NULL

\* Two updates went out exactly syncInterval apart, the second after the
\* kart had moved, and a call in between was held back.
C13_Witness ==
    /\ Len(updateTimes) = 2
    /\ updateTimes[2] - updateTimes[1] = syncInterval
    /\ Len(sent) = 1
    /\ sent[1].timestamp = updateTimes[2]
    /\ sent[1].x = 20

(***************************************************************************)
(*            Checkpoints, laps and race ranking (PhysicsEngine)           *)
(*                                                                         *)
(* Kart and checkpoint coordinates are integers.  Checkpoint indices are   *)
(* those of the code (from 0); checkpoints[i + 1] is the code's            *)
(* this.checkpoints[i].  Times (startTime, lapTimes) are left out.         *)
(***************************************************************************)
MaxCoord == 2   \* karts move on the points (0..MaxCoord, 0)
MaxLaps == 2    \* laps a kart completes

Karts == {"player", "bot1", "bot2"}

Positions == {[x |-> i, y |-> 0] : i \in 0..MaxCoord}

Checkpoint(x, y, radius) == [x |-> x, y |-> y, radius |-> radius]

\* The tracks: none loaded, a single checkpoint, discs apart from each
\* other (as generateOvalTrack lays them out), and consecutive discs that
\* overlap.
Layouts ==
    { <<>>,
      <<Checkpoint(1, 0, 1)>>,
      <<Checkpoint(0, 0, 1), Checkpoint(2, 0, 1)>>,
      <<Checkpoint(0, 0, 1), Checkpoint(1, 0, 1), Checkpoint(2, 0, 1)>>,
      <<Checkpoint(0, 0, 2), Checkpoint(1, 1, 2), Checkpoint(2, 0, 1)>> }

NoRaceData == [defined |-> FALSE]

\* The raceData object checkCheckpoints creates.
NewRaceData ==
    [defined |-> TRUE, currentCheckpoint |-> 0, lapCount |-> 0,
     checkpointsPassed |-> <<>>]

\* Utils.distance(x1, y1, x2, y2) < radius.  Math.sqrt is monotone and
\* exact on squares, so the squares are compared; a distance is never below
\* a radius that is not positive.
DistanceBelow(x1, y1, x2, y2, radius) ==
    /\ radius > 0
    /\ (x2 - x1) * (x2 - x1) + (y2 - y1) * (y2 - y1) < radius * radius

CheckCheckpointsOffByOne(kart, cps) ==
    LET rd == IF kart.raceData.defined THEN kart.raceData ELSE NewRaceData
        i == rd.currentCheckpoint
    IN IF i < Len(cps)
          /\ DistanceBelow(kart.x, kart.y, cps[i + 1].x, cps[i + 1].y,
                           cps[i + 1].radius)
       THEN LET passed == Append(rd.checkpointsPassed, i)
            IN IF i + 1 >= Len(cps) - 1
               THEN [kart |-> [kart EXCEPT !.raceData =
                                  [rd EXCEPT !.currentCheckpoint = 0,
                                             !.lapCount = @ + 1,
                                             !.checkpointsPassed = passed]],
                     event |-> "lap"]
               ELSE [kart |-> [kart EXCEPT !.raceData =
                                  [rd EXCEPT !.currentCheckpoint = i + 1,
                                             !.checkpointsPassed = passed]],
                     event |-> "checkpoint"]
       ELSE [kart |-> [kart EXCEPT !.raceData = rd], event |-> NULL]

\* checkCheckpoints(kart): the kart after the call and the event returned.
CheckCheckpoints(kart, cps) ==
    LET rd == IF kart.raceData.defined THEN kart.raceData ELSE NewRaceData
        i == rd.currentCheckpoint
    IN IF i < Len(cps)
          /\ DistanceBelow(kart.x, kart.y, cps[i + 1].x, cps[i + 1].y,
                           cps[i + 1].radius)
       THEN LET passed == Append(rd.checkpointsPassed, i)
            IN IF i + 1 >= Len(cps)
               THEN [kart |-> [kart EXCEPT !.raceData =
                                  [rd EXCEPT !.currentCheckpoint = 0,
                                             !.lapCount = @ + 1,
                                             !.checkpointsPassed = passed]],
                     event |-> "lap"]
               ELSE [kart |-> [kart EXCEPT !.raceData =
                                  [rd EXCEPT !.currentCheckpoint = i + 1,
                                             !.checkpointsPassed = passed]],
                     event |-> "checkpoint"]
       ELSE [kart |-> [kart EXCEPT !.raceData = rd], event |-> NULL]

\* getRaceProgress(kart): lapCount + currentCheckpoint / checkpoints.length,
\* a fraction n/d; with no checkpoints it is 0 + 0/0, NaN.
GetRaceProgress(kart, cps) ==
    IF ~kart.raceData.defined THEN [n |-> 0, d |-> 1]
    ELSE LET q == Divide(kart.raceData.currentCheckpoint, Len(cps))
         IN IF q.d = 0 THEN q
            ELSE [n |-> kart.raceData.lapCount * q.d + q.n, d |-> q.d]

CompareAscending(a, b) ==
    IF a.progress.d = 0 \/ b.progress.d = 0 THEN 0
    ELSE Sign(a.progress.n * b.progress.d - b.progress.n * a.progress.d)

\* The comparator (a, b) => b.progress - a.progress; sort reads a NaN
\* result as 0.
Compare(a, b) ==
    IF a.progress.d = 0 \/ b.progress.d = 0 THEN 0
    ELSE Sign(b.progress.n * a.progress.d - a.progress.n * b.progress.d)

\* Array.prototype.sort, which is stable: each item goes behind the items
\* that do not sort after it.
InsertSorted(sorted, item) ==
    LET after == {i \in 1..Len(sorted) : Compare(sorted[i], item) > 0}
        at == IF after = {} THEN Len(sorted) + 1 ELSE FirstOf(after)
    IN SubSeq(sorted, 1, at - 1) \o <<item>> \o SubSeq(sorted, at, Len(sorted))

RECURSIVE Sort(_)
Sort(items) ==
    IF items = <<>> THEN <<>>
    ELSE InsertSorted(Sort(SubSeq(items, 1, Len(items) - 1)), items[Len(items)])

\* getRacePosition(kart, allKarts); allKarts lists kart names, state holds
\* the karts.
GetRacePosition(name, allKarts, state, cps) ==
    LET sortedKarts ==
            Sort([i \in 1..Len(allKarts) |->
                     [kart |-> allKarts[i],
                      progress |-> GetRaceProgress(state[allKarts[i]], cps)]])
        found == {i \in 1..Len(sortedKarts) : sortedKarts[i].kart = name}
    IN IF found = {} THEN 0 ELSE FirstOf(found)

\* The kart lists handed to getRacePosition: the karts in any order.
KartLists ==
    {l \in [1..Cardinality(Karts) -> Karts] :
        \A i, j \in 1..Cardinality(Karts) : i # j => l[i] # l[j]}

NoRaceCall == [kart |-> NULL, events |-> <<>>, before |-> NoRaceData]
NoRankCall == [allKarts |-> <<>>, ranks |-> <<>>]

---------------------------------------------------------------------------
\* The kart drives to another point.
MoveKart(k) ==
    /\ \E p \in Positions :
         /\ p # [x |-> karts[k].x, y |-> karts[k].y]
         /\ karts' = [karts EXCEPT ![k].x = p.x, ![k].y = p.y]
    /\ raceCall' = NoRaceCall
    /\ rankCall' = NoRankCall
    /\ UNCHANGED <<checkpoints, nonRaceVars>>

\* updateRaceProgress calls checkCheckpoints(kart).
CheckCheckpointsCall(k) ==
    /\ karts[k].raceData.defined => karts[k].raceData.lapCount < MaxLaps
    /\ LET res == CheckCheckpoints(karts[k], checkpoints)
       IN /\ karts' = [karts EXCEPT ![k] = res.kart]
          /\ raceCall' =
                 [kart |-> k,
                  events |-> IF raceCall.kart = k
                             THEN <<raceCall.events[Len(raceCall.events)],
                                    res.event>>
                             ELSE <<res.event>>,
                  before |-> karts[k].raceData]
    /\ rankCall' = NoRankCall
    /\ UNCHANGED <<checkpoints, nonRaceVars>>

\* getRacePosition is asked for every kart of a list.
RacePositionCall ==
    /\ \E l \in KartLists :
         rankCall' = [allKarts |-> l,
                      ranks |-> [k \in Karts |->
                                    GetRacePosition(k, l, karts, checkpoints)]]
    /\ raceCall' = NoRaceCall
    /\ UNCHANGED <<checkpoints, karts, nonRaceVars>>

RaceIdle ==
    /\ checkpoints = <<>>
    /\ karts = [k \in Karts |-> [x |-> 0, y |-> 0, raceData |-> NoRaceData]]
    /\ raceCall = NoRaceCall
    /\ rankCall = NoRankCall

\* A track is loaded and the karts stand at the origin, without race data.
RaceInit ==
    /\ checkpoints \in Layouts
    /\ karts = [k \in Karts |-> [x |-> 0, y |-> 0, raceData |-> NoRaceData]]
    /\ raceCall = NoRaceCall
    /\ rankCall = NoRankCall

\* A tick of a kart that reaches the checkpoint it is heading for: it
\* moves there, and updateRaceProgress calls checkCheckpoints(kart).
DriveThroughCheckpoint(k) ==
    /\ karts[k].raceData.defined
    /\ karts[k].raceData.lapCount < MaxLaps
    /\ karts[k].raceData.currentCheckpoint < Len(checkpoints)
    /\ LET cp == checkpoints[karts[k].raceData.currentCheckpoint + 1]
           there == [karts[k] EXCEPT !.x = cp.x, !.y = cp.y]
       IN karts' = [karts EXCEPT ![k] = CheckCheckpoints(there, checkpoints).kart]
    /\ raceCall' = NoRaceCall
    /\ rankCall' = NoRankCall
    /\ UNCHANGED <<checkpoints, nonRaceVars>>

\* The karts whose driving is followed point by point.
Drivers == {"player", "bot1"}

RaceNext ==
    \/ \E k \in Drivers : MoveKart(k)
    \/ \E k \in Drivers : CheckCheckpointsCall(k)

RankNext ==
    \/ \E k \in Karts : CheckCheckpointsCall(k)
    \/ \E k \in Karts : DriveThroughCheckpoint(k)
    \/ RacePositionCall

---------------------------------------------------------------------------
(* Claims about checkpoints, laps and ranking. *)

CheckpointOf(kart) ==
    IF kart.raceData.defined THEN kart.raceData.currentCheckpoint ELSE 0
LapsOf(kart) == IF kart.raceData.defined THEN kart.raceData.lapCount ELSE 0
PassedBy(kart) ==
    IF kart.raceData.defined THEN kart.raceData.checkpointsPassed ELSE <<>>

NumCheckpoints == Len(checkpoints)

\* The last NumCheckpoints checkpoints the kart passed are 0 .. N-1, in order.
PassedAllInOrder(kart) ==
    LET passed == PassedBy(kart)
    IN /\ Len(passed) >= NumCheckpoints
       /\ \A i \in 1..NumCheckpoints :
              passed[Len(passed) - NumCheckpoints + i] = i - 1

\* C2: in every step, for every kart, currentCheckpoint stays, goes from i
\* to i+1, or goes from N-1 to 0; lapCount grows by exactly 1 exactly when
\* the kart passes checkpoint N-1 (the index wraps), which happens after
\* checkpoints 0..N-1 were passed in order; and a kart inside checkpoint 0's
\* radius whose currentCheckpoint is not the last index gains no lap.
C2_LapsCountFullTraversals ==
    [][ \A k \in Karts :
          LET cp == CheckpointOf(karts[k])
              lap == LapsOf(karts[k])
              wraps == /\ cp = NumCheckpoints - 1
                       /\ PassedBy(karts[k])' = Append(PassedBy(karts[k]), cp)
          IN /\ \/ CheckpointOf(karts[k])' = cp
                \/ CheckpointOf(karts[k])' = cp + 1 /\ cp + 1 < NumCheckpoints
                \/ CheckpointOf(karts[k])' = 0 /\ cp = NumCheckpoints - 1
             /\ LapsOf(karts[k])' = IF wraps THEN lap + 1 ELSE lap
             /\ wraps => CheckpointOf(karts[k])' = 0 /\ PassedAllInOrder(karts[k])'
             /\ NumCheckpoints > 0 /\ cp # NumCheckpoints - 1
                  /\ DistanceBelow(karts[k].x, karts[k].y, checkpoints[1].x,
                                   checkpoints[1].y, checkpoints[1].radius)
                => LapsOf(karts[k])' = lap ]_vars

\* A kart has just completed a lap of the three-checkpoint track by a call
\* made at the start line, where its second lap began.
C2_Witness ==
    /\ NumCheckpoints = 3
    /\ raceCall.kart # NULL
    /\ raceCall.events[Len(raceCall.events)] = "lap"
    /\ LapsOf(karts[raceCall.kart]) = 2

\* C3: for any checkpoint layout, of two checkCheckpoints calls made in
\* succession on a kart that has not moved, at most one yields an event:
\* when the first returns a checkpoint or lap event, the second returns
\* null and leaves currentCheckpoint and lapCount as they were.
C3_SecondCallYieldsNothing ==
    Len(raceCall.events) = 2 /\ raceCall.events[1] # NULL
    => /\ raceCall.events[2] = NULL
       /\ karts[raceCall.kart].raceData = raceCall.before

Ahead(a, b) ==
    \/ LapsOf(a) > LapsOf(b)
    \/ LapsOf(a) = LapsOf(b) /\ CheckpointOf(a) > CheckpointOf(b)

\* The place of the i-th kart of the list in the stable descending order
\* by (lapCount, currentCheckpoint).
PlaceOf(i, allKarts) ==
    1 + Cardinality({j \in 1..Len(allKarts) :
                        \/ Ahead(karts[allKarts[j]], karts[allKarts[i]])
                        \/ /\ j < i
                           /\ ~Ahead(karts[allKarts[i]], karts[allKarts[j]])})

\* C4: for every kart of allKarts, getRacePosition returns its place, from
\* 1, in the stable descending order by (lapCount, currentCheckpoint /
\* checkpoints.length): more laps rank ahead, equal laps are ordered by
\* checkpoint, karts of identical progress (with or without race data) keep
\* their order in allKarts, and no two karts share a rank.
C4_RankIsPlaceInStableOrder ==
    rankCall.allKarts # <<>> =>
        /\ \A i \in 1..Len(rankCall.allKarts) :
               /\ rankCall.ranks[rankCall.allKarts[i]] = PlaceOf(i, rankCall.allKarts)
               /\ rankCall.ranks[rankCall.allKarts[i]] \in 1..Len(rankCall.allKarts)
        /\ \A j, k \in Karts : j # k => rankCall.ranks[j] # rankCall.ranks[k]

\* Ranks were asked for with a kart a lap ahead but at a lower checkpoint
\* than another, and a kart without race data tied with none.
C4_Witness ==
    /\ rankCall.allKarts = <<"bot2", "bot1", "player">>
    /\ NumCheckpoints = 3
    /\ LapsOf(karts["player"]) = 1 /\ CheckpointOf(karts["player"]) = 0
    /\ LapsOf(karts["bot1"]) = 0 /\ CheckpointOf(karts["bot1"]) = 2
    /\ ~karts["bot2"].raceData.defined
    /\ rankCall.ranks = [k \in Karts |->
                            CASE k = "player" -> 1 [] k = "bot1" -> 2
                              [] OTHER -> 3]

(***************************************************************************)
(*                 Physics tick and collisions (PhysicsEngine)             *)
(*                                                                         *)
(* JavaScript numbers are fixed-point integers, every operation truncating *)
(* toward zero: lengths, velocities, forces, masses, powers, controls and  *)
(* other plain factors in 1/Scale; angles, angular velocities and torques  *)
(* in 1/AngleScale rad; times in 1/TimeScale s; dragCoefficient in 1/1000. *)
(***************************************************************************)
Scale == 100
AngleScale == 10000
TimeScale == 3000
DragScale == 1000

Abs(a) == IF a < 0 THEN -a ELSE a
Min(a, b) == IF a <= b THEN a ELSE b
Max(a, b) == IF a >= b THEN a ELSE b

\* a / b, truncated toward zero
Quot(a, b) ==
    IF (a >= 0) = (b > 0) THEN Abs(a) \div Abs(b) ELSE -(Abs(a) \div Abs(b))

\* a * b and a / b of two numbers in 1/Scale
Times(a, b) == Quot(a * b, Scale)
Over(a, b) == Quot(a * Scale, b)

\* Math.sqrt of a non-negative integer, rounded down: Newton's iteration
\* from an estimate that is not below the root
RECURSIVE SqrtFrom(_, _)
SqrtFrom(n, estimate) ==
    LET next == (estimate + n \div estimate) \div 2
    IN IF next >= estimate THEN estimate ELSE SqrtFrom(n, next)

Sqrt(n) ==
    IF n = 0 THEN 0
    ELSE SqrtFrom(n, IF n < 100 THEN 10
                     ELSE IF n < 10000 THEN 100
                     ELSE IF n < 1000000 THEN 1000
                     ELSE IF n < 100000000 THEN 10000
                     ELSE 46341)

\* Math.sqrt(a ** 2 + b ** 2), a and b in the same unit; beyond 300 units
\* the result is rounded down to whole units
Hypot(a, b) ==
    IF Abs(a) < 300 * Scale /\ Abs(b) < 300 * Scale
    THEN Sqrt(a * a + b * b)
    ELSE Scale * Sqrt(Quot(a, Scale) * Quot(a, Scale)
                        + Quot(b, Scale) * Quot(b, Scale))

\* Utils.clamp
clamp(value, min, max) == Min(Max(value, min), max)

Pi == 31416

\* Utils.normalizeAngle
RECURSIVE normalizeAngle(_)
normalizeAngle(angle) ==
    IF angle > Pi THEN normalizeAngle(angle - 2 * Pi)
    ELSE IF angle < -Pi THEN normalizeAngle(angle + 2 * Pi)
    ELSE angle

\* Utils.angleDifference
angleDifference(a1, a2) == normalizeAngle(a2 - a1)

\* Math.sin and Math.cos of an angle, in 1/Scale (Bhaskara's rational
\* approximation, within 0.002 of the sine)
Sin(angle) ==
    LET a == normalizeAngle(angle)
        x == Abs(a)
        p == (x * (Pi - x)) \div AngleScale
        s == (16 * p * Scale) \div (5 * ((Pi * Pi) \div AngleScale) - 4 * p)
    IN IF a < 0 THEN -s ELSE s

Cos(angle) == Sin(angle + Pi \div 2)

\* Math.atan of a ratio z in 0..Scale (0 <= z <= 1), in 1/AngleScale rad:
\* z * (pi/4 + 0.273 * (1 - z)), within 0.004 rad of the arc tangent
AtanUnit(z) == (z * (Pi \div 4 + (2730 * (Scale - z)) \div Scale)) \div Scale

\* Math.atan2(y, x)
Atan2(y, x) ==
    IF x = 0 /\ y = 0 THEN 0
    ELSE LET first == IF Abs(y) <= Abs(x)
                      THEN AtanUnit(Over(Abs(y), Abs(x)))
                      ELSE Pi \div 2 - AtanUnit(Over(Abs(x), Abs(y)))
             upper == IF x >= 0 THEN first ELSE Pi - first
         IN IF y >= 0 THEN upper ELSE -upper

\* KartPhysics constructor with an empty config
KartPhysics ==
    [mass |-> 150 * Scale, momentOfInertia |-> 100 * Scale,
     enginePower |-> 800 * Scale, brakePower |-> 1200 * Scale,
     steerPower |-> 3 * AngleScale,
     velocityX |-> 0, velocityY |-> 0, angularVelocity |-> 0,
     maxSpeed |-> 150 * Scale, maxAngularVelocity |-> 3 * AngleScale,
     forceX |-> 0, forceY |-> 0, torque |-> 0,
     dragCoefficient |-> 20, angularDrag |-> 5 * Scale,
     speed |-> 0, movementDirection |-> 0, slipAngle |-> 0,
     tireGrip |-> Scale]

\* KartPhysics.createPreset
createPreset(type) ==
    CASE type = "speed" ->
           [KartPhysics EXCEPT !.maxSpeed = 180 * Scale,
                               !.enginePower = 1000 * Scale,
                               !.mass = 120 * Scale,
                               !.dragCoefficient = 15]
      [] type = "handling" ->
           [KartPhysics EXCEPT !.maxSpeed = 140 * Scale,
                               !.steerPower = 4 * AngleScale,
                               !.mass = 140 * Scale,
                               !.brakePower = 1500 * Scale]
      [] type = "balanced" ->
           [KartPhysics EXCEPT !.maxSpeed = 160 * Scale,
                               !.enginePower = 900 * Scale,
                               !.steerPower = (7 * AngleScale) \div 2,
                               !.mass = 130 * Scale]
      [] OTHER -> KartPhysics

\* The two values trackData.bounds takes: the fallback track's empty array
\* and the generated track's record {inner, outer}, which has no length
TrackBounds == {"[]", "{inner, outer}"}

\* trackPath.length: 0 for the empty array; undefined for the record, and
\* as undefined compares false with every number it is -1 here, which
\* fails the two comparisons made with it (i < length, length > 0) as well
Length(path) == IF path = "[]" THEN 0 ELSE -1

\* Utils.isPointOnTrack: the loop toggles inside for the edges a ray from
\* the point crosses; it runs while i < trackPath.length, so not at all
\* for either value of TrackBounds, and inside stays false
isPointOnTrack(x, y, path) ==
    LET crossings == {i \in 0..(Length(path) - 1) : 0 < Length(path)}
    IN Cardinality(crossings) % 2 = 1

\* PhysicsEngine.getSurfaceType
getSurfaceType(x, y, bounds) ==
    IF isPointOnTrack(x, y, bounds) THEN "track" ELSE "grass"

\* PhysicsEngine.getFrictionCoefficient
getFrictionCoefficient(surfaceType) ==
    CASE surfaceType = "track" -> 2 * Scale
      [] surfaceType = "grass" -> 8 * Scale
      [] surfaceType = "gravel" -> 5 * Scale
      [] surfaceType = "mud" -> 12 * Scale
      [] OTHER -> 3 * Scale

\* PhysicsEngine.getGripMultiplier
getGripMultiplier(surfaceType) ==
    CASE surfaceType = "track" -> Scale
      [] surfaceType = "grass" -> (6 * Scale) \div 10
      [] surfaceType = "gravel" -> (7 * Scale) \div 10
      [] surfaceType = "mud" -> (4 * Scale) \div 10
      [] OTHER -> (8 * Scale) \div 10

\* Math.sqrt(physics.velocityX ** 2 + physics.velocityY ** 2)
VelocityMag(physics) == Hypot(physics.velocityX, physics.velocityY)

\* a * deltaTime
TimesDt(a, deltaTime) == Quot(a * deltaTime, TimeScale)

\* PhysicsEngine.applyForces
applyForces(obj, bounds) ==
    LET physics == obj.physics
        controls == obj.controls
        velocityMag == VelocityMag(physics)
        engineForce == Times(physics.enginePower, controls.accelerate)
        engineX == IF controls.accelerate # 0
                   THEN Times(Cos(obj.rotation), engineForce) ELSE 0
        engineY == IF controls.accelerate # 0
                   THEN Times(Sin(obj.rotation), engineForce) ELSE 0
        brakeForce == Times(physics.brakePower, controls.brake)
        braking == controls.brake > 0 /\ velocityMag > 0
        brakeX == IF braking
                  THEN -Times(Over(physics.velocityX, velocityMag), brakeForce)
                  ELSE 0
        brakeY == IF braking
                  THEN -Times(Over(physics.velocityY, velocityMag), brakeForce)
                  ELSE 0
        steerForce == Times(physics.steerPower, controls.steer)
        steerEffectiveness == Min(Over(velocityMag, 50 * Scale), Scale)
        steerTorque == IF controls.steer # 0
                       THEN Times(steerForce, steerEffectiveness) ELSE 0
        dragCoeff == Quot(physics.dragCoefficient
                            * Times(velocityMag, velocityMag), DragScale)
        dragX == IF velocityMag > 0
                 THEN -Times(Over(physics.velocityX, velocityMag), dragCoeff)
                 ELSE 0
        dragY == IF velocityMag > 0
                 THEN -Times(Over(physics.velocityY, velocityMag), dragCoeff)
                 ELSE 0
        frictionCoeff == getFrictionCoefficient(getSurfaceType(obj.x, obj.y, bounds))
    IN [obj EXCEPT
          !.physics.forceX = engineX + brakeX + dragX
                               - Times(physics.velocityX, frictionCoeff),
          !.physics.forceY = engineY + brakeY + dragY
                               - Times(physics.velocityY, frictionCoeff),
          !.physics.torque = steerTorque
                               - Times(physics.angularVelocity, physics.angularDrag)]

\* PhysicsEngine.updateVelocity
updateVelocity(obj, deltaTime) ==
    LET physics == obj.physics
        accelerationX == Over(physics.forceX, physics.mass)
        accelerationY == Over(physics.forceY, physics.mass)
        angularAcceleration == Over(physics.torque, physics.momentOfInertia)
        velocityX == physics.velocityX + TimesDt(accelerationX, deltaTime)
        velocityY == physics.velocityY + TimesDt(accelerationY, deltaTime)
        angularVelocity ==
            physics.angularVelocity + TimesDt(angularAcceleration, deltaTime)
        velocityMag == Hypot(velocityX, velocityY)
        scale == Over(physics.maxSpeed, velocityMag)
        limited == velocityMag > physics.maxSpeed
    IN [obj EXCEPT
          !.physics.velocityX =
              IF limited THEN Times(velocityX, scale) ELSE velocityX,
          !.physics.velocityY =
              IF limited THEN Times(velocityY, scale) ELSE velocityY,
          !.physics.angularVelocity =
              clamp(angularVelocity, -physics.maxAngularVelocity,
                    physics.maxAngularVelocity)]

\* PhysicsEngine.updatePosition
updatePosition(obj, deltaTime) ==
    [obj EXCEPT
       !.x = @ + TimesDt(obj.physics.velocityX, deltaTime),
       !.y = @ + TimesDt(obj.physics.velocityY, deltaTime),
       !.rotation = normalizeAngle(@ + TimesDt(obj.physics.angularVelocity,
                                                deltaTime))]

\* The world bounds of applyConstraints: x and y from 0 to 2000
WorldSize == 2000 * Scale

\* PhysicsEngine.applyConstraints.  The track-boundary branch is guarded by
\* trackBounds.length > 0, which holds for neither value of TrackBounds.
applyConstraints(obj) ==
    LET physics == obj.physics
        half(v) == Times(Abs(v), Scale \div 2)
    IN [obj EXCEPT
          !.x = IF obj.x < 0 THEN 0
                ELSE IF obj.x > WorldSize THEN WorldSize ELSE obj.x,
          !.y = IF obj.y < 0 THEN 0
                ELSE IF obj.y > WorldSize THEN WorldSize ELSE obj.y,
          !.physics.velocityX =
              IF obj.x < 0 THEN half(physics.velocityX)
              ELSE IF obj.x > WorldSize THEN -half(physics.velocityX)
              ELSE physics.velocityX,
          !.physics.velocityY =
              IF obj.y < 0 THEN half(physics.velocityY)
              ELSE IF obj.y > WorldSize THEN -half(physics.velocityY)
              ELSE physics.velocityY]

\* PhysicsEngine.calculateTireGrip
calculateTireGrip(obj, bounds) ==
    LET physics == obj.physics
        slipAngle == Abs(physics.slipAngle)
        optimalSlipAngle == AngleScale \div 5
        excess == Quot((slipAngle - optimalSlipAngle) * 2 * Scale, AngleScale)
        bySlip == IF slipAngle > optimalSlipAngle
                  THEN Max((3 * Scale) \div 10, Scale - excess)
                  ELSE Scale
        bySpeed == IF physics.speed < 10 * Scale
                   THEN Times(bySlip, Over(physics.speed, 10 * Scale))
                   ELSE bySlip
    IN Times(bySpeed, getGripMultiplier(getSurfaceType(obj.x, obj.y, bounds)))

\* PhysicsEngine.updateBoundingBox
updateBoundingBox(obj) ==
    [obj EXCEPT !.boundingBox = [x |-> obj.x - obj.radius,
                                 y |-> obj.y - obj.radius,
                                 width |-> obj.radius * 2,
                                 height |-> obj.radius * 2]]

\* PhysicsEngine.updateDerivedProperties
updateDerivedProperties(obj, bounds) ==
    LET physics == obj.physics
        speed == VelocityMag(physics)
        moving == speed > Scale \div 10
        movementDirection ==
            IF moving THEN Atan2(physics.velocityY, physics.velocityX)
            ELSE physics.movementDirection
        slipAngle == IF moving
                     THEN angleDifference(obj.rotation, movementDirection)
                     ELSE 0
        derived == [obj EXCEPT !.physics.speed = speed,
                               !.physics.movementDirection = movementDirection,
                               !.physics.slipAngle = slipAngle]
    IN updateBoundingBox(
         [derived EXCEPT !.physics.tireGrip = calculateTireGrip(derived, bounds)])

\* 1/30 s, the cap on one step's deltaTime
MaxDeltaTime == TimeScale \div 30

\* updateObject cut into sub-steps of at most 1/30 s instead of capped
RECURSIVE updateObjectSubStepped(_, _, _)
updateObjectSubStepped(obj, deltaTime, bounds) ==
    LET dt == Min(deltaTime, MaxDeltaTime)
        forced == applyForces(obj, bounds)
        accelerated == updateVelocity(forced, dt)
        moved == updatePosition(accelerated, dt)
        constrained == applyConstraints(moved)
        derived == updateDerivedProperties(constrained, bounds)
    IN IF deltaTime > MaxDeltaTime
       THEN updateObjectSubStepped(derived, deltaTime - MaxDeltaTime, bounds)
       ELSE derived

\* PhysicsEngine.updateObject
updateObject(obj, deltaTime, bounds) ==
    LET dt == Min(deltaTime, MaxDeltaTime)
        forced == applyForces(obj, bounds)
        accelerated == updateVelocity(forced, dt)
        moved == updatePosition(accelerated, dt)
        constrained == applyConstraints(moved)
    IN updateDerivedProperties(constrained, bounds)

\* Utils.distance
distance(x1, y1, x2, y2) == Hypot(x2 - x1, y2 - y1)

\* PhysicsEngine.checkCollision
checkCollision(obj1, obj2) ==
    distance(obj1.x, obj1.y, obj2.x, obj2.y) < obj1.radius + obj2.radius

\* resolveCollision with each velocity changed by the impulse times the
\* kart's own mass instead of the other kart's
resolveCollisionOwnMass(obj1, obj2, random1, random2) ==
    LET dx == obj2.x - obj1.x
        dy == obj2.y - obj1.y
        dist == Hypot(dx, dy)
        overlap == (obj1.radius + obj2.radius) - dist
        separationX == Times(Times(Over(dx, dist), overlap), Scale \div 2)
        separationY == Times(Times(Over(dy, dist), overlap), Scale \div 2)
        apart1 == [obj1 EXCEPT !.x = @ - separationX, !.y = @ - separationY]
        apart2 == [obj2 EXCEPT !.x = @ + separationX, !.y = @ + separationY]
        normalX == Over(dx, dist)
        normalY == Over(dy, dist)
        relativeVelX == obj2.physics.velocityX - obj1.physics.velocityX
        relativeVelY == obj2.physics.velocityY - obj1.physics.velocityY
        velAlongNormal == Times(relativeVelX, normalX)
                            + Times(relativeVelY, normalY)
        restitution == (3 * Scale) \div 10
        impulseMagnitude == -Times(Scale + restitution, velAlongNormal)
        totalMass == obj1.physics.mass + obj2.physics.mass
        impulse == Over(impulseMagnitude, totalMass)
        impulseX == Times(impulse, normalX)
        impulseY == Times(impulse, normalY)
        angularImpulse == AngleScale \div 10
        spin(random) == Times(angularImpulse, random - Scale \div 2)
    IN IF dist = 0
       THEN [obj1 |-> obj1, obj2 |-> obj2, outcome |-> "coincident"]
       ELSE IF velAlongNormal > 0
       THEN [obj1 |-> apart1, obj2 |-> apart2, outcome |-> "separating"]
       ELSE [obj1 |-> [apart1 EXCEPT
                         !.physics.velocityX = @ - Times(impulseX, obj1.physics.mass),
                         !.physics.velocityY = @ - Times(impulseY, obj1.physics.mass),
                         !.physics.angularVelocity = @ + spin(random1)],
             obj2 |-> [apart2 EXCEPT
                         !.physics.velocityX = @ + Times(impulseX, obj2.physics.mass),
                         !.physics.velocityY = @ + Times(impulseY, obj2.physics.mass),
                         !.physics.angularVelocity = @ + spin(random2)],
             outcome |-> "impulse"]

\* resolveCollision with karts on the same point pushed apart along the x
\* axis instead of left alone
resolveCollisionAlongX(obj1, obj2, random1, random2) ==
    LET dx == obj2.x - obj1.x
        dy == obj2.y - obj1.y
        dist == Hypot(dx, dy)
        overlap == (obj1.radius + obj2.radius) - dist
        separationX == Times(Times(Over(dx, dist), overlap), Scale \div 2)
        separationY == Times(Times(Over(dy, dist), overlap), Scale \div 2)
        apart1 == [obj1 EXCEPT !.x = @ - separationX, !.y = @ - separationY]
        apart2 == [obj2 EXCEPT !.x = @ + separationX, !.y = @ + separationY]
        normalX == Over(dx, dist)
        normalY == Over(dy, dist)
        relativeVelX == obj2.physics.velocityX - obj1.physics.velocityX
        relativeVelY == obj2.physics.velocityY - obj1.physics.velocityY
        velAlongNormal == Times(relativeVelX, normalX)
                            + Times(relativeVelY, normalY)
        restitution == (3 * Scale) \div 10
        impulseMagnitude == -Times(Scale + restitution, velAlongNormal)
        totalMass == obj1.physics.mass + obj2.physics.mass
        impulse == Over(impulseMagnitude, totalMass)
        impulseX == Times(impulse, normalX)
        impulseY == Times(impulse, normalY)
        angularImpulse == AngleScale \div 10
        spin(random) == Times(angularImpulse, random - Scale \div 2)
    IN IF dist = 0
       THEN [obj1 |-> [obj1 EXCEPT !.x = @ - Times(overlap, Scale \div 2)],
             obj2 |-> [obj2 EXCEPT !.x = @ + Times(overlap, Scale \div 2)],
             outcome |-> "separating"]
       ELSE IF velAlongNormal > 0
       THEN [obj1 |-> apart1, obj2 |-> apart2, outcome |-> "separating"]
       ELSE [obj1 |-> [apart1 EXCEPT
                         !.physics.velocityX = @ - Times(impulseX, obj2.physics.mass),
                         !.physics.velocityY = @ - Times(impulseY, obj2.physics.mass),
                         !.physics.angularVelocity = @ + spin(random1)],
             obj2 |-> [apart2 EXCEPT
                         !.physics.velocityX = @ + Times(impulseX, obj1.physics.mass),
                         !.physics.velocityY = @ + Times(impulseY, obj1.physics.mass),
                         !.physics.angularVelocity = @ + spin(random2)],
             outcome |-> "impulse"]

\* PhysicsEngine.resolveCollision; random1 and random2 are the two values of
\* Math.random()
resolveCollision(obj1, obj2, random1, random2) ==
    LET dx == obj2.x - obj1.x
        dy == obj2.y - obj1.y
        dist == Hypot(dx, dy)
        overlap == (obj1.radius + obj2.radius) - dist
        separationX == Times(Times(Over(dx, dist), overlap), Scale \div 2)
        separationY == Times(Times(Over(dy, dist), overlap), Scale \div 2)
        apart1 == [obj1 EXCEPT !.x = @ - separationX, !.y = @ - separationY]
        apart2 == [obj2 EXCEPT !.x = @ + separationX, !.y = @ + separationY]
        normalX == Over(dx, dist)
        normalY == Over(dy, dist)
        relativeVelX == obj2.physics.velocityX - obj1.physics.velocityX
        relativeVelY == obj2.physics.velocityY - obj1.physics.velocityY
        velAlongNormal == Times(relativeVelX, normalX)
                            + Times(relativeVelY, normalY)
        restitution == (3 * Scale) \div 10
        impulseMagnitude == -Times(Scale + restitution, velAlongNormal)
        totalMass == obj1.physics.mass + obj2.physics.mass
        impulse == Over(impulseMagnitude, totalMass)
        impulseX == Times(impulse, normalX)
        impulseY == Times(impulse, normalY)
        angularImpulse == AngleScale \div 10
        spin(random) == Times(angularImpulse, random - Scale \div 2)
    IN IF dist = 0
       THEN [obj1 |-> obj1, obj2 |-> obj2, outcome |-> "coincident"]
       ELSE IF velAlongNormal > 0
       THEN [obj1 |-> apart1, obj2 |-> apart2, outcome |-> "separating"]
       ELSE [obj1 |-> [apart1 EXCEPT
                         !.physics.velocityX = @ - Times(impulseX, obj2.physics.mass),
                         !.physics.velocityY = @ - Times(impulseY, obj2.physics.mass),
                         !.physics.angularVelocity = @ + spin(random1)],
             obj2 |-> [apart2 EXCEPT
                         !.physics.velocityX = @ + Times(impulseX, obj1.physics.mass),
                         !.physics.velocityY = @ + Times(impulseY, obj1.physics.mass),
                         !.physics.angularVelocity = @ + spin(random2)],
             outcome |-> "impulse"]

\* The pairs (i, j), i < j, in the order of handleCollisions' two loops
RECURSIVE PairsFrom(_, _, _)
PairsFrom(i, j, n) ==
    IF i > n THEN <<>>
    ELSE IF j > n THEN PairsFrom(i + 1, i + 2, n)
    ELSE <<(<<i, j>>)>> \o PairsFrom(i, j + 1, n)

\* PhysicsEngine.handleCollisions from the given pair on; randoms[k] holds
\* the two values Math.random() returns in the k-th pair's resolution, and
\* calls collects the arguments and results of resolveCollision
RECURSIVE HandlePairs(_, _, _, _, _)
HandlePairs(objs, pairs, k, randoms, calls) ==
    IF k > Len(pairs) THEN [objects |-> objs, calls |-> calls]
    ELSE LET i == pairs[k][1]
             j == pairs[k][2]
             result == resolveCollision(objs[i], objs[j],
                                        randoms[k][1], randoms[k][2])
         IN IF checkCollision(objs[i], objs[j])
            THEN HandlePairs([objs EXCEPT ![i] = result.obj1,
                                          ![j] = result.obj2],
                             pairs, k + 1, randoms,
                             Append(calls, [obj1 |-> objs[i],
                                            obj2 |-> objs[j],
                                            result |-> result]))
            ELSE HandlePairs(objs, pairs, k + 1, randoms, calls)

\* PhysicsEngine.handleCollisions
handleCollisions(objs, randoms) ==
    HandlePairs(objs, PairsFrom(1, 2, Len(objs)), 1, randoms, <<>>)

\* PhysicsEngine.update
update(deltaTime, objs, bounds, randoms) ==
    handleCollisions([i \in DOMAIN objs |->
                        updateObject(objs[i], deltaTime, bounds)], randoms)

(***************************************************************************)
(* Karts, inputs and the tick.                                             *)
(***************************************************************************)
MaxTicks == 2

NoControls == [accelerate |-> 0, brake |-> 0, steer |-> 0]

\* A kart as createPlayerKart and createAIBots build it, later in the race:
\* at (x, y), heading rotation, with the given velocities
Kart(type, x, y, rotation, velocityX, velocityY, angularVelocity) ==
    [x |-> x * Scale, y |-> y * Scale, rotation |-> rotation,
     radius |-> 20 * Scale,
     physics |-> [createPreset(type) EXCEPT
                    !.velocityX = velocityX * Scale,
                    !.velocityY = velocityY * Scale,
                    !.angularVelocity = angularVelocity],
     controls |-> NoControls,
     boundingBox |-> [x |-> 0, y |-> 0, width |-> 0, height |-> 0]]

\* The karts of a race at the start of a tick: on the grid, far apart,
\* overlapping and closing at their speed limits, overlapping and
\* separating, on the same point, at the edge of the world, spinning at
\* their limits, on the centreline of the generated oval, on the same
\* point and moving alike
StartStates ==
    { <<Kart("balanced", 400, 300, 0, 0, 0, 0),
        Kart("speed", 350, 300, 0, 0, 0, 0)>>,
      <<Kart("balanced", 400, 300, 0, 90, 0, 0),
        Kart("handling", 300, 300, 0, 80, 0, 0)>>,
      <<Kart("balanced", 100, 100, 0, 160, 0, 0),
        Kart("handling", 130, 100, Pi \div 2, 0, 140, 0)>>,
      <<Kart("default", 100, 100, 0, 150, 0, 0),
        Kart("speed", 135, 100, Pi, -180, 0, 0)>>,
      <<Kart("balanced", 100, 100, Pi, -50, 0, 0),
        Kart("speed", 130, 100, 0, 50, 0, 0)>>,
      <<Kart("balanced", 100, 100, 0, 0, 0, 0),
        Kart("handling", 100, 100, 0, 0, 0, 0)>>,
      <<Kart("speed", 1, 1, -(3 * Pi) \div 4, -100, -100, 0),
        Kart("handling", 100, 1, Pi, -90, 0, 0)>>,
      <<Kart("balanced", 1999, 1950, 0, 110, 0, 0),
        Kart("handling", 1950, 1999, Pi \div 2, 0, 90, 0)>>,
      <<Kart("handling", 500, 500, 0, 100, 0, 3 * AngleScale),
        Kart("speed", 530, 510, Pi, -100, 0, -3 * AngleScale)>>,
      <<Kart("balanced", 1300, 600, Pi \div 2, 0, 60, 0),
        Kart("speed", 1000, 800, Pi, -60, 0, 0)>>,
      <<Kart("speed", 600, 600, 0, 70, 0, AngleScale),
        Kart("speed", 600, 600, 0, 70, 0, AngleScale)>> }

\* deltaTime of a frame: 1/60 s, and 1/10 s after a stall
DeltaTimes == {TimeScale \div 60, TimeScale \div 10}

\* deltaTime values of 1/30 s and more: 1/30 s, 1/10 s, 1 s
LongDeltaTimes == {MaxDeltaTime, TimeScale \div 10, TimeScale}

\* The controls of the two karts in one frame: both coasting; full throttle
\* into a left turn beside a driver who brakes into a right turn; full brake
\* beside full throttle; half throttle into a right turn beside a coasting
\* kart
Controls ==
    { <<NoControls, NoControls>>,
      <<[accelerate |-> Scale, brake |-> 0, steer |-> -Scale],
        [accelerate |-> Scale, brake |-> Scale \div 2, steer |-> Scale]>>,
      <<[accelerate |-> 0, brake |-> Scale, steer |-> 0],
        [accelerate |-> Scale, brake |-> 0, steer |-> 0]>>,
      <<[accelerate |-> Scale \div 2, brake |-> 0, steer |-> Scale],
        NoControls>> }

\* Values of Math.random(), in [0, 1)
Randoms == {0, Scale - 1}

\* One frame of the race: the drivers set their controls, then
\* physics.update(deltaTime, karts) runs
PhysicsUpdate(deltaTime, controls, randoms) ==
    /\ ticks < MaxTicks
    /\ LET driven == [i \in DOMAIN objects |->
                        [objects[i] EXCEPT !.controls = controls[i]]]
           result == update(deltaTime, driven, trackBounds, randoms)
       IN /\ objects' = result.objects
          /\ resolved' = result.calls
          /\ frame' = [deltaTime |-> deltaTime, objects |-> driven]
    /\ ticks' = ticks + 1
    /\ UNCHANGED trackBounds
    /\ UNCHANGED nonPhysVars

NoFrame == [deltaTime |-> 0, objects |-> <<>>]

PhysIdle ==
    /\ trackBounds = "[]"
    /\ objects = <<>>
    /\ ticks = 0
    /\ frame = NoFrame
    /\ resolved = <<>>

PhysInit ==
    /\ trackBounds \in TrackBounds
    /\ \E start \in StartStates :
         objects = [i \in DOMAIN start |->
                      updateDerivedProperties(start[i], trackBounds)]
    /\ ticks = 0
    /\ frame = NoFrame
    /\ resolved = <<>>

PhysNext ==
    \E deltaTime \in DeltaTimes, controls \in Controls,
       random1 \in Randoms, random2 \in Randoms :
        PhysicsUpdate(deltaTime, controls, <<(<<random1, random2>>)>>)


(***************************************************************************)
(* Claims about the physics tick.                                          *)
(***************************************************************************)
\* The two limits of a kart, as updateVelocity measures them
WithinLimits(obj) ==
    /\ VelocityMag(obj.physics) <= obj.physics.maxSpeed
    /\ Abs(obj.physics.angularVelocity) <= obj.physics.maxAngularVelocity

\* C1 (as stated): after every PhysicsEngine.update, from karts within
\* their limits and for any controls and deltaTime, every kart's speed is
\* at most its maxSpeed and its angular velocity at most its
\* maxAngularVelocity in magnitude.  Violated: resolveCollision runs after
\* the limits were applied and adds its impulse and spin on top.
C1_UpdateKeepsLimits ==
    ticks > 0 => \A i \in DOMAIN objects : WithinLimits(objects[i])

\* C20: after every update each kart's physics.tireGrip lies in
\* [0.3, 1.0].
C20_TireGripInRange ==
    ticks > 0 =>
        \A i \in DOMAIN objects :
            /\ objects[i].physics.tireGrip >= (3 * Scale) \div 10
            /\ objects[i].physics.tireGrip <= Scale

\* The upper end of C20 alone.
TireGripAtMostOne ==
    \A i \in DOMAIN objects : objects[i].physics.tireGrip <= Scale

\* The derived values of a kart agree with its state: speed is the
\* magnitude of the velocity and the bounding box is centred on (x, y)
DerivedConsistent(obj) ==
    /\ obj.physics.speed = VelocityMag(obj.physics)
    /\ obj.boundingBox.x = obj.x - obj.radius
    /\ obj.boundingBox.y = obj.y - obj.radius
    /\ obj.boundingBox.width = obj.radius * 2
    /\ obj.boundingBox.height = obj.radius * 2

\* C21 (as stated): when PhysicsEngine.update returns, every kart's
\* physics.speed equals the magnitude of its velocity and its bounding box
\* is centred on (x, y), also for karts that collision resolution changed
\* in that tick.  Violated: handleCollisions runs after every
\* updateDerivedProperties and nothing recomputes the derived values.
C21_DerivedValuesConsistent ==
    ticks > 0 => \A i \in DOMAIN objects : DerivedConsistent(objects[i])

\* The part of C21 that holds: after an update in which no pair of karts
\* collided the derived values are consistent.
DerivedConsistentWithoutCollision ==
    ticks > 0 /\ resolved = <<>>
        => \A i \in DOMAIN objects : DerivedConsistent(objects[i])

\* One pass over a kart with the time step dt: forces, velocity, position,
\* constraints, derived values, in that order
SinglePass(obj, dt, bounds) ==
    updateDerivedProperties(
        applyConstraints(
            updatePosition(
                updateVelocity(applyForces(obj, bounds), dt), dt)), bounds)

\* C22: for every kart and controls that an update was called with, and
\* every deltaTime of at least 1/30 s, updateObject gives the state that one
\* pass with the step 1/30 s gives; so it does for the deltaTime of the
\* update itself when that was 1/30 s or more.
C22_TimeStepCapped ==
    \A i \in DOMAIN frame.objects :
        /\ \A deltaTime \in LongDeltaTimes :
              updateObject(frame.objects[i], deltaTime, trackBounds)
                = SinglePass(frame.objects[i], MaxDeltaTime, trackBounds)
        /\ frame.deltaTime >= MaxDeltaTime
             => updateObject(frame.objects[i], frame.deltaTime, trackBounds)
                  = SinglePass(frame.objects[i], MaxDeltaTime, trackBounds)

\* An update ran with a deltaTime of 1/10 s on a driven kart for which the
\* step matters: a pass with 1/60 s, and a second pass of 1/30 s, would
\* each have given another state.
C22_Witness ==
    /\ ticks > 0
    /\ frame.deltaTime > MaxDeltaTime
    /\ \E i \in DOMAIN frame.objects :
         LET obj == frame.objects[i]
             once == SinglePass(obj, MaxDeltaTime, trackBounds)
         IN /\ obj.controls # NoControls
            /\ SinglePass(obj, MaxDeltaTime \div 2, trackBounds) # once
            /\ SinglePass(once, MaxDeltaTime, trackBounds) # once

\* Points of the path generateOvalTrack(1000, 600, 300, 200) builds, the
\* centreline of the track: segments 0, 16, 32 and 48 of 64
TrackPath ==
    { [x |-> 1300 * Scale, y |-> 600 * Scale],
      [x |-> 1000 * Scale, y |-> 800 * Scale],
      [x |-> 700 * Scale, y |-> 600 * Scale],
      [x |-> 1000 * Scale, y |-> 400 * Scale] }

OnCenterline(obj) == [x |-> obj.x, y |-> obj.y] \in TrackPath

\* The friction of the surface under a kart at the start of an update, as
\* applyForces reads it, and the grip as calculateTireGrip reads it
SurfaceOf(obj) == getSurfaceType(obj.x, obj.y, trackBounds)

\* C25 (as stated, first part): with the generated track's bounds, a kart
\* that enters an update on the track centreline is classified 'track'
\* (friction 2.0, grip 1.0).  Violated: the bounds are a record
\* {inner, outer} without a length, so isPointOnTrack's loop never runs.
C25_CenterlineIsTrack ==
    ticks > 0 /\ trackBounds = "{inner, outer}"
        => \A i \in DOMAIN frame.objects :
               OnCenterline(frame.objects[i])
                   => /\ SurfaceOf(frame.objects[i]) = "track"
                      /\ getFrictionCoefficient(SurfaceOf(frame.objects[i]))
                           = 2 * Scale
                      /\ getGripMultiplier(SurfaceOf(frame.objects[i]))
                           = Scale

\* What holds instead: under both values of trackBounds every kart, on the
\* centreline or not, is on 'grass' with friction 8.0 and grip 0.6, and the
\* guard of the boundary collision check (trackBounds.length > 0) is false.
EverySurfaceIsGrass ==
    /\ ~(Length(trackBounds) > 0)
    /\ \A i \in DOMAIN frame.objects :
          /\ SurfaceOf(frame.objects[i]) = "grass"
          /\ getFrictionCoefficient(SurfaceOf(frame.objects[i])) = 8 * Scale
          /\ getGripMultiplier(SurfaceOf(frame.objects[i]))
               = (6 * Scale) \div 10

\* A resolveCollision call made for two karts on the same point
Coincident(call) ==
    distance(call.obj1.x, call.obj1.y, call.obj2.x, call.obj2.y) = 0

\* C26: when two karts occupy the same position (centre distance 0),
\* resolveCollision returns without raising and leaves the position,
\* velocity and angular velocity of both karts unchanged.
C26_CoincidentKartsLeftAlone ==
    \A k \in DOMAIN resolved :
        Coincident(resolved[k])
            => /\ resolved[k].result.outcome = "coincident"
               /\ resolved[k].result.obj1 = resolved[k].obj1
               /\ resolved[k].result.obj2 = resolved[k].obj2

\* An update in which resolveCollision was called for two moving, turning
\* karts on one point
C26_Witness ==
    /\ ticks > 0
    /\ \E k \in DOMAIN resolved :
         /\ Coincident(resolved[k])
         /\ VelocityMag(resolved[k].obj1.physics) > 0
         /\ resolved[k].obj1.physics.angularVelocity # 0
         /\ objects[1].x = resolved[k].obj1.x
         /\ objects[2].x = resolved[k].obj2.x

\* Sum of mass times velocity of two karts, per component
MomentumX(obj1, obj2) ==
    (obj1.physics.mass \div Scale) * obj1.physics.velocityX
      + (obj2.physics.mass \div Scale) * obj2.physics.velocityX

MomentumY(obj1, obj2) ==
    (obj1.physics.mass \div Scale) * obj1.physics.velocityY
      + (obj2.physics.mass \div Scale) * obj2.physics.velocityY

\* C6: every resolveCollision(obj1, obj2) leaves m1*v1 + m2*v2 as it was,
\* in x and in y, whether it applied the impulse or skipped it.
C6_CollisionConservesMomentum ==
    \A k \in DOMAIN resolved :
        LET call == resolved[k]
        IN /\ MomentumX(call.result.obj1, call.result.obj2)
                = MomentumX(call.obj1, call.obj2)
           /\ MomentumY(call.result.obj1, call.result.obj2)
                = MomentumY(call.obj1, call.obj2)

\* Two karts of different mass collided and the impulse changed the
\* velocity of both.
C6_Witness ==
    \E k \in DOMAIN resolved :
        LET call == resolved[k]
        IN /\ call.result.outcome = "impulse"
           /\ call.obj1.physics.mass # call.obj2.physics.mass
           /\ call.result.obj1.physics.velocityX # call.obj1.physics.velocityX
           /\ call.result.obj2.physics.velocityY # call.obj2.physics.velocityY

(***************************************************************************)
(*                     The AI drivers (AIManager)                          *)
(*                                                                         *)
(* Units as in the physics part; the timers of a bot are in 1/TimeScale s. *)
(***************************************************************************)
\* AIManager.difficultySettings
difficultySettings ==
    [easy |-> [reactionTime |-> (3 * Scale) \div 10,
               maxSpeed |-> (7 * Scale) \div 10,
               corneringSkill |-> (6 * Scale) \div 10,
               aggressiveness |-> (3 * Scale) \div 10,
               mistakeFrequency |-> (15 * Scale) \div 100,
               lookAheadDistance |-> 50 * Scale],
     medium |-> [reactionTime |-> (2 * Scale) \div 10,
                 maxSpeed |-> (85 * Scale) \div 100,
                 corneringSkill |-> (8 * Scale) \div 10,
                 aggressiveness |-> (6 * Scale) \div 10,
                 mistakeFrequency |-> (8 * Scale) \div 100,
                 lookAheadDistance |-> 80 * Scale],
     hard |-> [reactionTime |-> Scale \div 10,
               maxSpeed |-> (95 * Scale) \div 100,
               corneringSkill |-> (95 * Scale) \div 100,
               aggressiveness |-> (8 * Scale) \div 10,
               mistakeFrequency |-> (3 * Scale) \div 100,
               lookAheadDistance |-> 120 * Scale]]

\* AIManager.createBot.  The fields a bot gets only later (avoidanceVector,
\* inCombat, aggressionBonus, the four mistakes) start as the value their
\* first reads take them for: zero, false.  nextMistake is written and
\* never read, and left out.
createBot(id, difficulty) ==
    [id |-> id, difficulty |-> difficulty,
     settings |-> difficultySettings[difficulty],
     currentTarget |-> 0, targetPosition |-> [x |-> 0, y |-> 0],
     pathProgress |-> 0,
     reactionDelay |-> 0, mistakeTimer |-> 0,
     aggressionCooldown |-> 0, aggressionBonus |-> 0, inCombat |-> FALSE,
     overallPerformance |-> Scale,
     avoidanceVector |-> [x |-> 0, y |-> 0],
     steerMistake |-> 0, brakeMistake |-> 0, accelerateMistake |-> 0,
     targetOffset |-> 0,
     controls |-> NoControls]

\* The ids bot_${i} that createRace and createAIBots give, i from 0
BotIds == <<"bot_0", "bot_1", "bot_2">>

\* AIManager.createRace
createRace(difficulty, count) ==
    [i \in 1..count |-> createBot(BotIds[i], difficulty)]

\* generateOvalTrack's path: segments points on the oval
segments == 64

generateOvalTrack(centerX, centerY, radiusX, radiusY) ==
    [k \in 1..segments |->
        LET at == Quot((k - 1) * 2 * Pi, segments)
        IN [x |-> centerX + Times(Cos(at), radiusX),
            y |-> centerY + Times(Sin(at), radiusY),
            angle |-> at + Pi \div 2]]

\* The two values of trackData.path: the fallback track's empty path and
\* the oval createTrackData builds
TrackPaths ==
    { <<>>,
      generateOvalTrack(1000 * Scale, 600 * Scale, 300 * Scale, 200 * Scale) }

\* The loop of updateNavigation: the index of the first path point at the
\* least distance from (x, y)
ClosestIndex(x, y, path) ==
    LET distances == {<<distance(x, y, path[i].x, path[i].y), i>> :
                         i \in 1..Len(path)}
        closest == CHOOSE c \in distances :
                       \A d \in distances :
                           c[1] < d[1] \/ (c[1] = d[1] /\ c[2] <= d[2])
    IN closest[2]

\* AIManager.updateNavigation; path indices count from 1 here
updateNavigation(bot, kart, path) ==
    IF Len(path) = 0 THEN bot
    ELSE LET closestIndex == ClosestIndex(kart.x, kart.y, path) - 1
             lookAhead == bot.settings.lookAheadDistance \div (30 * Scale)
             currentTarget == (closestIndex + lookAhead) % Len(path)
         IN [bot EXCEPT
               !.currentTarget = currentTarget,
               !.targetPosition = [x |-> path[currentTarget + 1].x,
                                   y |-> path[currentTarget + 1].y],
               !.pathProgress = Over(closestIndex * Scale, Len(path) * Scale)]

\* The comparator of calculateRacePosition's sort: laps first, then
\* checkpoints, both descending
CompareLaps(a, b) ==
    IF a.raceData.lapCount # b.raceData.lapCount
    THEN b.raceData.lapCount - a.raceData.lapCount
    ELSE b.raceData.currentCheckpoint - a.raceData.currentCheckpoint

\* Array.prototype.sort with that comparator (stable)
InsertByLaps(sorted, item) ==
    LET after == {i \in 1..Len(sorted) : CompareLaps(sorted[i], item) > 0}
        at == IF after = {} THEN Len(sorted) + 1 ELSE FirstOf(after)
    IN SubSeq(sorted, 1, at - 1) \o <<item>> \o SubSeq(sorted, at, Len(sorted))

RECURSIVE SortByLaps(_)
SortByLaps(items) ==
    IF items = <<>> THEN <<>>
    ELSE InsertByLaps(SortByLaps(SubSeq(items, 1, Len(items) - 1)),
                      items[Len(items)])

\* AIManager.calculateRacePosition
calculateRacePosition(kart, allKarts) ==
    IF ~kart.raceData.defined THEN Len(allKarts)
    ELSE LET sortedKarts ==
                 SortByLaps(SelectSeq(allKarts, LAMBDA k : k.raceData.defined))
             found == {i \in 1..Len(sortedKarts) : sortedKarts[i].id = kart.id}
         IN IF found = {} THEN 0 ELSE FirstOf(found)

\* A kart of the race as calculateRacePosition reads it
RankedKart(name) == [id |-> name, raceData |-> karts[name].raceData]

\* calculateRacePosition(kart, allKarts) for the kart list of the last
\* getRacePosition call
AiRank(name) ==
    calculateRacePosition(RankedKart(name),
                          [i \in DOMAIN rankCall.allKarts |->
                              RankedKart(rankCall.allKarts[i])])

\* C30 (as stated): for every kart list and every kart in it, in every race
\* state, the ticks before the karts have race data included,
\* AIManager.calculateRacePosition returns the rank
\* PhysicsEngine.getRacePosition returns.  Violated: for a kart without
\* raceData the former returns allKarts.length, and it leaves such karts
\* out of the order, while the latter ranks them with progress 0.
C30_AiRankIsRaceRank ==
    rankCall.allKarts # <<>>
        => \A k \in Karts : AiRank(k) = rankCall.ranks[k]

\* What holds instead: the two ranks agree once every kart has raceData.
RanksAgreeWithRaceData ==
    /\ rankCall.allKarts # <<>>
    /\ \A k \in Karts : karts[k].raceData.defined
    => \A k \in Karts : AiRank(k) = rankCall.ranks[k]

\* AIManager.adjustPerformanceBasedOnPosition
adjustPerformanceBasedOnPosition(bot, position, totalKarts) ==
    LET relativePosition == Over(position * Scale, totalKarts * Scale)
        trailing == (7 * Scale) \div 10
        leading == (3 * Scale) \div 10
        performance ==
            IF relativePosition > trailing
            THEN Scale + Times(relativePosition - trailing, Scale \div 2)
            ELSE IF relativePosition < leading
            THEN Scale - Times(leading - relativePosition, (3 * Scale) \div 10)
            ELSE Scale
    IN [bot EXCEPT !.overallPerformance =
            clamp(performance, (6 * Scale) \div 10, (13 * Scale) \div 10)]

\* Utils.angle
angle(x1, y1, x2, y2) == Atan2(y2 - y1, x2 - x1)

\* Utils.vectorMagnitude
vectorMagnitude(v) == Hypot(v.x, v.y)

\* AIManager.updateCollisionAvoidance: the sum, over the other karts closer
\* than the avoidance radius and not on the same point, of the unit vector
\* away from the kart times the avoidance strength
RECURSIVE AvoidanceFrom(_, _, _)
AvoidanceFrom(kart, allKarts, k) ==
    IF k > Len(allKarts) THEN [x |-> 0, y |-> 0]
    ELSE LET otherKart == allKarts[k]
             rest == AvoidanceFrom(kart, allKarts, k + 1)
             dist == distance(kart.x, kart.y, otherKart.x, otherKart.y)
             avoidanceRadius == 80 * Scale
             avoidanceStrength == Over(avoidanceRadius - dist, avoidanceRadius)
             away == angle(otherKart.x, otherKart.y, kart.x, kart.y)
         IN IF otherKart.id # kart.id /\ dist < avoidanceRadius /\ dist > 0
            THEN [x |-> rest.x + Times(Cos(away), avoidanceStrength),
                  y |-> rest.y + Times(Sin(away), avoidanceStrength)]
            ELSE rest

updateCollisionAvoidance(bot, kart, allKarts) ==
    [bot EXCEPT !.avoidanceVector = AvoidanceFrom(kart, allKarts, 1)]

\* AIManager.updateCombatBehavior
updateCombatBehavior(bot, kart, allKarts, playerKart) ==
    LET nearbyOpponents ==
            SelectSeq(allKarts,
                      LAMBDA otherKart :
                          /\ otherKart.id # kart.id
                          /\ distance(kart.x, kart.y, otherKart.x, otherKart.y)
                               < 100 * Scale)
        nearPlayer ==
            /\ bot.aggressionCooldown <= 0
            /\ distance(kart.x, kart.y, playerKart.x, playerKart.y) < 60 * Scale
        aggressionBonus ==
            IF nearPlayer THEN Times(bot.settings.aggressiveness, Scale \div 2)
            ELSE bot.aggressionBonus
    IN [bot EXCEPT
          !.inCombat = Len(nearbyOpponents) > 0,
          !.aggressionCooldown = IF nearPlayer THEN 2 * TimeScale ELSE @,
          !.aggressionBonus = Max(0, aggressionBonus - Scale \div 10)]

\* The values Math.random() returns in one updateMistakeBehavior: for the
\* test against the mistake frequency, for Utils.randomChoice and for the
\* size of the mistake
NoMistake == [trigger |-> Scale - 1, choice |-> 0, amount |-> 0]

\* AIManager.updateMistakeBehavior
updateMistakeBehavior(bot, deltaTime, random) ==
    LET triggered ==
            /\ bot.mistakeTimer <= 0
            /\ random.trigger * TimeScale
                 < bot.settings.mistakeFrequency * deltaTime
        mistakeTypes == <<"overcorrect", "brake_early", "miss_apex", "wheelspin">>
        mistakeType == mistakeTypes[(random.choice * Len(mistakeTypes)) \div Scale + 1]
        made(type) == triggered /\ mistakeType = type
        steerMistake == IF made("overcorrect")
                        THEN (random.amount - Scale \div 2) * 2
                        ELSE bot.steerMistake
        brakeMistake == IF made("brake_early") THEN Scale ELSE bot.brakeMistake
        targetOffset == IF made("miss_apex")
                        THEN (random.amount - Scale \div 2) * 40
                        ELSE bot.targetOffset
        accelerateMistake == IF made("wheelspin") THEN -(Scale \div 2)
                             ELSE bot.accelerateMistake
        mistakeTimer ==
            CASE made("overcorrect") -> TimeScale \div 2
              [] made("brake_early") -> (3 * TimeScale) \div 10
              [] made("miss_apex") -> TimeScale
              [] made("wheelspin") -> (4 * TimeScale) \div 10
              [] OTHER -> bot.mistakeTimer
        decay(mistake, factor, least) ==
            LET decayed == Times(mistake, factor)
            IN IF mistake = 0 THEN 0
               ELSE IF Abs(decayed) < least THEN 0 ELSE decayed
    IN [bot EXCEPT
          !.mistakeTimer = mistakeTimer,
          !.steerMistake = decay(steerMistake, (9 * Scale) \div 10, Scale \div 10),
          !.brakeMistake = decay(brakeMistake, (8 * Scale) \div 10, Scale \div 10),
          !.accelerateMistake =
              decay(accelerateMistake, (9 * Scale) \div 10, Scale \div 10),
          !.targetOffset = decay(targetOffset, (95 * Scale) \div 100, 5 * Scale)]

\* AIManager.updateBehavior
updateBehavior(bot, kart, deltaTime, allKarts, playerKart, random) ==
    LET position == calculateRacePosition(kart, allKarts)
        adjusted == adjustPerformanceBasedOnPosition(bot, position, Len(allKarts))
        avoiding == updateCollisionAvoidance(adjusted, kart, allKarts)
        fighting == updateCombatBehavior(avoiding, kart, allKarts, playerKart)
    IN updateMistakeBehavior(fighting, deltaTime, random)

\* generateControls without its last statement, the cap on accelerate
\* while braking
generateControlsNoCap(bot, kart, deltaTime) ==
    LET targetX == bot.targetPosition.x + bot.targetOffset
                     + Times(bot.avoidanceVector.x, 50 * Scale)
        targetY == bot.targetPosition.y
                     + Times(bot.avoidanceVector.y, 50 * Scale)
        targetAngle == angle(kart.x, kart.y, targetX, targetY)
        angleDiff == angleDifference(kart.rotation, targetAngle)
        skilled == Times(clamp(Quot(angleDiff * Scale, Pi), -Scale, Scale),
                         bot.settings.corneringSkill)
        mistaken == skilled + bot.steerMistake
        steerInput == IF bot.reactionDelay > 0
                      THEN Times(mistaken, Scale \div 2) ELSE mistaken
        currentSpeed == kart.physics.speed
        maxSpeed == Times(Times(kart.physics.maxSpeed, bot.settings.maxSpeed),
                          bot.overallPerformance)
        cornerSeverity == Quot(Abs(angleDiff) * Scale, Pi)
        brakingFactor == Over(cornerSeverity - (3 * Scale) \div 10,
                              (7 * Scale) \div 10)
        accelerateInput ==
            (IF cornerSeverity > (3 * Scale) \div 10
             THEN Max((3 * Scale) \div 10,
                      Scale - Times(brakingFactor, bot.settings.corneringSkill))
             ELSE IF currentSpeed > Times(maxSpeed, (9 * Scale) \div 10)
             THEN Scale \div 2
             ELSE Scale)
              + bot.accelerateMistake
        emergency == IF vectorMagnitude(bot.avoidanceVector) > Scale \div 2
                     THEN (6 * Scale) \div 10 ELSE 0
        cornering ==
            IF /\ cornerSeverity > Scale \div 2
               /\ currentSpeed > Times(maxSpeed, (6 * Scale) \div 10)
            THEN Max(emergency,
                     Times(Times(cornerSeverity - Scale \div 2, 2 * Scale),
                           bot.settings.corneringSkill))
            ELSE emergency
        brakeInput == Max(cornering, bot.brakeMistake)
        controls == [accelerate |-> clamp(accelerateInput, 0, Scale),
                    brake |-> clamp(brakeInput, 0, Scale),
                    steer |-> clamp(steerInput, -Scale, Scale)]
    IN [bot EXCEPT !.controls = controls]

\* AIManager.generateControls
generateControls(bot, kart, deltaTime) ==
    LET targetX == bot.targetPosition.x + bot.targetOffset
                     + Times(bot.avoidanceVector.x, 50 * Scale)
        targetY == bot.targetPosition.y
                     + Times(bot.avoidanceVector.y, 50 * Scale)
        targetAngle == angle(kart.x, kart.y, targetX, targetY)
        angleDiff == angleDifference(kart.rotation, targetAngle)
        skilled == Times(clamp(Quot(angleDiff * Scale, Pi), -Scale, Scale),
                         bot.settings.corneringSkill)
        mistaken == skilled + bot.steerMistake
        steerInput == IF bot.reactionDelay > 0
                      THEN Times(mistaken, Scale \div 2) ELSE mistaken
        currentSpeed == kart.physics.speed
        maxSpeed == Times(Times(kart.physics.maxSpeed, bot.settings.maxSpeed),
                          bot.overallPerformance)
        cornerSeverity == Quot(Abs(angleDiff) * Scale, Pi)
        brakingFactor == Over(cornerSeverity - (3 * Scale) \div 10,
                              (7 * Scale) \div 10)
        accelerateInput ==
            (IF cornerSeverity > (3 * Scale) \div 10
             THEN Max((3 * Scale) \div 10,
                      Scale - Times(brakingFactor, bot.settings.corneringSkill))
             ELSE IF currentSpeed > Times(maxSpeed, (9 * Scale) \div 10)
             THEN Scale \div 2
             ELSE Scale)
              + bot.accelerateMistake
        emergency == IF vectorMagnitude(bot.avoidanceVector) > Scale \div 2
                     THEN (6 * Scale) \div 10 ELSE 0
        cornering ==
            IF /\ cornerSeverity > Scale \div 2
               /\ currentSpeed > Times(maxSpeed, (6 * Scale) \div 10)
            THEN Max(emergency,
                     Times(Times(cornerSeverity - Scale \div 2, 2 * Scale),
                           bot.settings.corneringSkill))
            ELSE emergency
        brakeInput == Max(cornering, bot.brakeMistake)
        controls == [accelerate |-> clamp(accelerateInput, 0, Scale),
                    brake |-> clamp(brakeInput, 0, Scale),
                    steer |-> clamp(steerInput, -Scale, Scale)]
    IN [bot EXCEPT !.controls =
          IF controls.brake > (3 * Scale) \div 10
          THEN [controls EXCEPT
                  !.accelerate = Min(@, (3 * Scale) \div 10)]
          ELSE controls]

\* AIManager.updateBot: the bot and its kart afterwards
updateBot(bot, kart, deltaTime, allKarts, playerKart, path, random) ==
    LET timed == [bot EXCEPT
                    !.reactionDelay = Max(0, @ - deltaTime),
                    !.mistakeTimer = Max(0, @ - deltaTime),
                    !.aggressionCooldown = Max(0, @ - deltaTime)]
        navigated == updateNavigation(timed, kart, path)
        behaved == updateBehavior(navigated, kart, deltaTime, allKarts,
                                  playerKart, random)
        steered == generateControls(behaved, kart, deltaTime)
    IN [bot |-> steered, kart |-> [kart EXCEPT !.controls = steered.controls]]

\* AIManager.update from the k-th bot on; randoms[k] is what Math.random()
\* returns to that bot
RECURSIVE UpdateBotsFrom(_, _, _, _, _, _, _)
UpdateBotsFrom(allBots, k, deltaTime, allKarts, playerKartId, path, randoms) ==
    IF k > Len(allBots) THEN [bots |-> allBots, karts |-> allKarts]
    ELSE LET found == {i \in 1..Len(allKarts) : allKarts[i].id = allBots[k].id}
             at == FirstOf(found)
             playerKart == allKarts[FirstOf({i \in 1..Len(allKarts) :
                                               allKarts[i].id = playerKartId})]
             updated == updateBot(allBots[k], allKarts[at], deltaTime, allKarts,
                                  playerKart, path, randoms[k])
         IN IF found = {}
            THEN UpdateBotsFrom(allBots, k + 1, deltaTime, allKarts, playerKartId,
                                path, randoms)
            ELSE UpdateBotsFrom([allBots EXCEPT ![k] = updated.bot], k + 1,
                                deltaTime,
                                [allKarts EXCEPT ![at] = updated.kart],
                                playerKartId, path, randoms)

\* AIManager.update
AIUpdate(allBots, deltaTime, allKarts, playerKartId, path, randoms) ==
    UpdateBotsFrom(allBots, 1, deltaTime, allKarts, playerKartId, path, randoms)

(***************************************************************************)
(* The race the bots drive in.                                             *)
(***************************************************************************)
MaxAiTicks == 2

\* createAIBots' botCount
botCount == 3

Difficulties == {"easy", "medium", "hard"}

\* A kart of the race: a physics kart with its id and race data
RaceKart(id, raceData, kart) ==
    [id |-> id, x |-> kart.x, y |-> kart.y, rotation |-> kart.rotation,
     radius |-> kart.radius,
     physics |-> updateDerivedProperties(kart, "[]").physics,
     controls |-> kart.controls, raceData |-> raceData]

RaceDataAt(lapCount, currentCheckpoint) ==
    [NewRaceData EXCEPT !.lapCount = lapCount,
                        !.currentCheckpoint = currentCheckpoint]

\* The player's kart and the three bots' karts on the oval track: on the
\* starting grid; in a pack on the far straight, the first bot between the
\* player and the second bot; with the first bot heading against the track
\* at speed and the others abreast of it
Scenes ==
    { <<RaceKart("player", NoRaceData,
                 Kart("balanced", 1300, 600, Pi \div 2, 0, 0, 0)),
        RaceKart("bot_0", NoRaceData,
                 Kart("speed", 1300, 550, Pi \div 2, 0, 0, 0)),
        RaceKart("bot_1", NoRaceData,
                 Kart("handling", 1300, 500, Pi \div 2, 0, 0, 0)),
        RaceKart("bot_2", NoRaceData,
                 Kart("balanced", 1300, 450, Pi \div 2, 0, 0, 0))>>,
      <<RaceKart("player", RaceDataAt(1, 2),
                 Kart("balanced", 1010, 800, Pi, -90, 0, 0)),
        RaceKart("bot_0", RaceDataAt(1, 2),
                 Kart("speed", 1040, 805, Pi, -100, 0, 0)),
        RaceKart("bot_1", RaceDataAt(0, 7),
                 Kart("handling", 1075, 800, Pi, -80, 0, 0)),
        RaceKart("bot_2", NoRaceData,
                 Kart("balanced", 1200, 760, (3 * Pi) \div 4, -100, 100, 0))>>,
      <<RaceKart("player", NoRaceData,
                 Kart("balanced", 1300, 600, Pi \div 2, 0, 0, 0)),
        RaceKart("bot_0", RaceDataAt(2, 4),
                 Kart("speed", 700, 600, Pi \div 2, 0, 170, 0)),
        RaceKart("bot_1", RaceDataAt(0, 6),
                 Kart("handling", 1000, 400, Pi \div 2, 0, 60, 0)),
        RaceKart("bot_2", RaceDataAt(2, 4),
                 Kart("balanced", 700, 630, -(Pi \div 2), 0, -120, 0))>> }

StartingGrid ==
    CHOOSE scene \in Scenes : \A i \in DOMAIN scene : ~scene[i].raceData.defined

\* What Math.random() returns to the three bots in one update: the second
\* bot overcorrects to the left; the first brakes early and the second
\* misses the apex; the first spins its wheels and the third overcorrects
\* to the right; nobody makes a mistake
Rolls ==
    { <<NoMistake, [trigger |-> 0, choice |-> 0, amount |-> 0], NoMistake>>,
      <<[trigger |-> 0, choice |-> Scale \div 4, amount |-> 0],
        [trigger |-> 0, choice |-> Scale \div 2, amount |-> Scale - 1],
        NoMistake>>,
      <<[trigger |-> 0, choice |-> (3 * Scale) \div 4, amount |-> 0],
        NoMistake,
        [trigger |-> 0, choice |-> 0, amount |-> Scale - 1]>>,
      <<NoMistake, NoMistake, NoMistake>> }

\* One frame of a single-player race: the karts are where the physics put
\* them, then ai.update(deltaTime, karts, playerKart) runs
AITick(scene, deltaTime, randoms) ==
    /\ aiTicks < MaxAiTicks
    /\ LET result == AIUpdate(bots, deltaTime, scene, "player", trackPath,
                              randoms)
       IN /\ bots' = result.bots
          /\ aiKarts' = result.karts
    /\ aiTicks' = aiTicks + 1
    /\ UNCHANGED trackPath
    /\ UNCHANGED nonAiVars

AiIdle ==
    /\ trackPath = <<>>
    /\ bots = <<>>
    /\ aiKarts = <<>>
    /\ aiTicks = 0

AiInit ==
    /\ trackPath \in TrackPaths
    /\ \E difficulty \in Difficulties : bots = createRace(difficulty, botCount)
    /\ aiKarts = StartingGrid
    /\ aiTicks = 0

AiNext ==
    \E scene \in Scenes, deltaTime \in DeltaTimes, randoms \in Rolls :
        AITick(scene, deltaTime, randoms)

(***************************************************************************)
(* Claims about the AI drivers.                                            *)
(***************************************************************************)
\* The karts the bots drive
BotKarts == {i \in DOMAIN aiKarts : \E k \in DOMAIN bots : bots[k].id = aiKarts[i].id}

\* C5: after every AIManager.update the controls written to each bot's
\* kart have accelerate and brake between 0 and 1, steer between -1 and 1,
\* and never accelerate above 0.3 together with brake above 0.3.
C5_ControlsInRange ==
    \A i \in BotKarts :
        LET controls == aiKarts[i].controls
        IN /\ 0 <= controls.accelerate /\ controls.accelerate <= Scale
           /\ 0 <= controls.brake /\ controls.brake <= Scale
           /\ -Scale <= controls.steer /\ controls.steer <= Scale
           /\ ~(/\ controls.accelerate > (3 * Scale) \div 10
                /\ controls.brake > (3 * Scale) \div 10)

\* An update wrote controls where the cap on accelerate took effect: a bot
\* that would accelerate fully brakes for an early-braking mistake, and
\* another bot steers with an overcorrection still active.
C5_Witness ==
    /\ aiTicks > 0
    /\ \E i \in BotKarts, k \in DOMAIN bots :
         /\ bots[k].id = aiKarts[i].id
         /\ bots[k].brakeMistake > 0
         /\ aiKarts[i].controls.brake > (3 * Scale) \div 10
         /\ aiKarts[i].controls.accelerate = (3 * Scale) \div 10
    /\ \E k \in DOMAIN bots :
         /\ bots[k].steerMistake # 0
         /\ bots[k].controls.steer # 0

(***************************************************************************)
(*                 The race from start to finish (Game)                    *)
(*                                                                         *)
(* The single-player game: the screens, the countdown, the frames of a     *)
(* race and its end.  A frame moves the karts and runs updateRaceProgress  *)
(* on them; steering, speeds and rendering are left out.  The karts and    *)
(* the track are those of the checkpoint part.                             *)
(***************************************************************************)
laps == 3              \* raceConfig.laps
MaxRaceLaps == 4       \* laps a kart completes before the frames stop
MaxCountdownTimers == 2 \* countdown intervals running at the same time
MaxOvershoot == 2      \* ticks below 0 of a countdown that missed 0

RaceKarts == <<"player", "bot1", "bot2">>

StartGrid == [k \in Karts |-> [x |-> 0, y |-> 0, raceData |-> NoRaceData]]

\* The raceState object of the constructor and of cleanup().
NoRace == [started |-> FALSE, finished |-> FALSE, countdown |-> 0]

\* History: no physics.update has run yet.
NoUpdate == [gameMode |-> NULL, karts |-> <<>>, remote |-> FALSE]

GameIdle ==
    game = [state |-> "menu", gameMode |-> "singleplayer",
            raceState |-> NoRace, karts |-> <<>>,
            countdownTimers |-> 0, finishRaceCalls |-> 0,
            lastUpdate |-> NoUpdate]

GameFrame == UNCHANGED <<checkpoints, raceCall, rankCall, nonGameVars>>

\* initializeRace(): new karts on the start line (the player's, and the
\* bots' in single-player mode), a new raceState, and startCountdown() arms
\* one more interval.
InitializeRace(g) ==
    [g EXCEPT !.karts = IF g.gameMode = "singleplayer"
                        THEN RaceKarts ELSE <<"player">>,
              !.raceState = [started |-> FALSE, finished |-> FALSE,
                             countdown |-> 3],
              !.countdownTimers = @ + 1,
              !.finishRaceCalls = 0]

\* finishRace()
finishRace(g) ==
    [g EXCEPT !.raceState.finished = TRUE,
              !.state = "results",
              !.finishRaceCalls = @ + 1]

isPlayer(k) == k = "player"

EndsRaceForAnyKart(k, res) ==
    /\ res.event = "lap"
    /\ res.kart.raceData.lapCount >= laps

\* updateRaceProgress, for one kart: the test that leads to finishRace().
EndsRace(k, res) ==
    /\ res.event = "lap"
    /\ isPlayer(k)
    /\ res.kart.raceData.lapCount >= laps

\* updateRaceProgress over this.karts[i..], in order.
RECURSIVE updateRaceProgress(_, _, _)
updateRaceProgress(g, res, i) ==
    IF i > Len(g.karts) THEN g
    ELSE updateRaceProgress(IF EndsRace(g.karts[i], res[g.karts[i]])
                            THEN finishRace(g) ELSE g,
                            res, i + 1)

\* startSinglePlayer(difficulty): setState('playing'), initializeRace().
StartSinglePlayer ==
    /\ game.state = "menu"
    /\ game.countdownTimers < MaxCountdownTimers
    /\ game' = InitializeRace([game EXCEPT !.state = "playing",
                                           !.gameMode = "singleplayer"])
    /\ karts' = StartGrid
    /\ GameFrame

\* restartRace(), from the pause menu or the results screen.
RestartRace ==
    /\ game.state \in {"paused", "results"}
    /\ game.countdownTimers < MaxCountdownTimers
    /\ game' = InitializeRace([game EXCEPT !.state = "playing"])
    /\ karts' = StartGrid
    /\ GameFrame

\* A tick of a countdown interval: at 0 the race starts and that interval
\* is cleared; an interval that misses 0 goes on.
CountdownTick ==
    /\ game.countdownTimers > 0
    /\ game.raceState.countdown > 0 - MaxOvershoot
    /\ LET c == game.raceState.countdown - 1
       IN game' = IF c = 0
                  THEN [game EXCEPT !.raceState.countdown = c,
                                    !.raceState.started = TRUE,
                                    !.countdownTimers = @ - 1]
                  ELSE [game EXCEPT !.raceState.countdown = c]
    /\ UNCHANGED karts
    /\ GameFrame

\* pauseGame(), by button or Escape
PauseGame ==
    /\ game.state = "playing"
    /\ game' = [game EXCEPT !.state = "paused"]
    /\ UNCHANGED karts
    /\ GameFrame

\* resumeGame()
ResumeGame ==
    /\ game.state = "paused"
    /\ game' = [game EXCEPT !.state = "playing"]
    /\ UNCHANGED karts
    /\ GameFrame

\* quitToMenu(): cleanup(), showMainMenu()
QuitToMenu ==
    /\ game.state = "paused"
    /\ game' = [game EXCEPT !.state = "menu", !.raceState = NoRace,
                            !.karts = <<>>]
    /\ karts' = StartGrid
    /\ GameFrame

\* showMainMenu(), from the results screen: nothing is reset.
ShowMainMenu ==
    /\ game.state = "results"
    /\ game' = [game EXCEPT !.state = "menu"]
    /\ UNCHANGED karts
    /\ GameFrame

\* update(timestamp) in state 'playing', the race started: the pause input
\* may be down, the karts move, and updateRaceProgress calls checkCheckpoints
\* on each and may finish the race.
UpdateGame ==
    /\ game.state = "playing"
    /\ game.raceState.started
    /\ \A k \in Karts : LapsOf(karts[k]) < MaxRaceLaps
    /\ \E pause \in BOOLEAN, to \in [Drivers -> Positions] :
         LET moved == [k \in Karts |->
                          IF k \in Drivers
                          THEN [karts[k] EXCEPT !.x = to[k].x, !.y = to[k].y]
                          ELSE karts[k]]
             res == [k \in Karts |-> CheckCheckpoints(moved[k], checkpoints)]
             g == [game EXCEPT
                     !.state = IF pause THEN "paused" ELSE @,
                     !.lastUpdate = [gameMode |-> game.gameMode,
                                     karts |-> game.karts,
                                     remote |-> present]]
         IN /\ karts' = [k \in Karts |-> res[k].kart]
            /\ game' = updateRaceProgress(g, res, 1)
    /\ GameFrame

\* The player of the room who is not the local one.
RemotePlayer == CHOOSE id \in PlayerIds : id # playerId

\* startMultiplayer(): the mode, the lobby screen, then connect() and
\* createRoom().
StartMultiplayer ==
    /\ game.state = "menu"
    /\ game' = [game EXCEPT !.gameMode = "multiplayer",
                            !.state = "multiplayerLobby"]
    /\ CanConnect(World)
    /\ \E code \in RoomCodes :
         Install(IF mgr.connected
                 THEN CreateRoomTail(World, code)
                 ELSE Connect(World, "createRoom", code))
    /\ lastEvent' = "call"
    /\ sent' = <<>>
    /\ UNCHANGED <<lastSyncTime, localKart, updateTimes>>
    /\ UNCHANGED <<syncVars, raceVars, physVars, aiVars, serverVars,
                   rejoinVars>>

\* restartRace() as a method: it tests neither this.state nor the game
\* mode.  No screen of the multiplayer mode has a button for it, and nothing
\* else there calls initializeRace().
RestartRaceCall ==
    /\ game.state = "multiplayerLobby"
    /\ game.countdownTimers < MaxCountdownTimers
    /\ game' = InitializeRace([game EXCEPT !.state = "playing"])
    /\ karts' = StartGrid
    /\ GameFrame

\* updateGame(deltaTime) in multiplayer mode, the race started: no AI
\* update; physics.update(deltaTime, this.karts) moves the player's kart;
\* updateRaceProgress; sendPlayerUpdate(this.playerKart).
UpdateMultiplayerGame ==
    /\ game.state = "playing"
    /\ game.raceState.started
    /\ game.gameMode = "multiplayer"
    /\ LapsOf(karts["player"]) < MaxRaceLaps
    /\ \E to \in Positions, kart \in LocalKarts, later \in {clock, clock + 1} :
         LET moved == [karts["player"] EXCEPT !.x = to.x, !.y = to.y]
             res == [k \in Karts |->
                        IF k = "player"
                        THEN CheckCheckpoints(moved, checkpoints)
                        ELSE [kart |-> karts[k], event |-> NULL]]
             g == [game EXCEPT !.lastUpdate = [gameMode |-> game.gameMode,
                                               karts |-> game.karts,
                                               remote |-> present]]
             done == sendPlayerUpdate(World, kart, lastSyncTime, clock, later)
         IN /\ karts' = [k \in Karts |-> res[k].kart]
            /\ game' = updateRaceProgress(g, res, 1)
            /\ localKart' = kart
            /\ lastSyncTime' = done.lastSyncTime
            /\ sent' = done.sent
            /\ updateTimes' =
                   LastTwo(updateTimes \o
                           [i \in 1..Len(done.sent) |-> done.sent[i].timestamp])
    /\ lastEvent' = "updateGame"
    /\ UNCHANGED <<mgr, sockets, staleTimers, reconnectTimers, delays>>
    /\ UNCHANGED <<checkpoints, raceCall, rankCall>>
    /\ UNCHANGED <<syncVars, physVars, aiVars, serverVars, rejoinVars>>

\* A game in multiplayer mode: the lobby, the room's other player coming
\* and going, a race and its frames.
RemoteNext ==
    \/ StartMultiplayer
    \/ \E r \in BagToSet(sockets) : SocketOpen(r)
    \/ RecvPlayerJoined
    \/ RecvPlayerLeft
    \/ ClockTick
    \/ RestartRaceCall
    \/ CountdownTick
    \/ UpdateMultiplayerGame

GameNext ==
    \/ StartSinglePlayer
    \/ RestartRace
    \/ CountdownTick
    \/ PauseGame
    \/ ResumeGame
    \/ QuitToMenu
    \/ ShowMainMenu
    \/ UpdateGame

\* The player's kart completes its laps-th lap in this step.
PlayerCompletesLastLap ==
    /\ game.karts # <<>>
    /\ game'.karts # <<>>
    /\ LapsOf(karts["player"]) = laps - 1
    /\ LapsOf(karts'["player"]) = laps

\* A race is being counted down: initialized, not started, 1 to 3 s to go
CountingDown ==
    /\ game.state \in {"playing", "paused"}
    /\ ~game.raceState.started
    /\ game.raceState.countdown \in 1..3

\* C29 (as stated, in part): a countdown timer runs only for the race that
\* started it: at most one interval is armed, only while its race is being
\* counted down, and no countdown is decremented below 0.  Violated:
\* restartRace and quitToMenu never clear the interval startCountdown armed.
C29_OneCountdownPerRace ==
    /\ game.countdownTimers <= 1
    /\ game.countdownTimers = 1 => CountingDown
    /\ game.raceState.countdown >= 0

\* What holds instead: the interval that brings the countdown to 0 starts
\* the race and clears itself, the others run on; and no kart moves while
\* raceState.started is false, except to the grid of a new race.
KartsWaitForStart ==
    [][/\ karts' # karts => game.raceState.started \/ karts' = StartGrid
       /\ game'.countdownTimers < game.countdownTimers
            => game'.raceState.started /\ game'.raceState.countdown = 0
       /\ ~game.raceState.started /\ game'.raceState.started
            => game'.raceState.countdown = 0]_vars

\* C16: raceState.finished implies that the player's lapCount is at least
\* raceConfig.laps, whatever laps the AI karts have completed; finishRace
\* has run at most once since initializeRace; and the race becomes finished,
\* with the game in state 'results', in exactly the steps in which the
\* player's kart completes its laps-th lap.
C16_RaceEndsWithPlayersLastLap ==
    /\ [](/\ game.raceState.finished => LapsOf(karts["player"]) >= laps
          /\ game.finishRaceCalls <= 1)
    /\ [][ /\ PlayerCompletesLastLap
             => game'.raceState.finished /\ game'.state = "results"
           /\ ~game.raceState.finished /\ game'.raceState.finished
             => PlayerCompletesLastLap
           /\ game'.finishRaceCalls > game.finishRaceCalls
             => PlayerCompletesLastLap ]_vars

\* The race is over, and a bot completed its laps before the player did.
C16_Witness ==
    /\ game.raceState.finished
    /\ game.state = "results"
    /\ game.finishRaceCalls = 1
    /\ LapsOf(karts["player"]) = laps
    /\ LapsOf(karts["bot1"]) > laps

(***************************************************************************)
(*                   The game server (GameServer, io)                      *)
(*                                                                         *)
(* Rooms and the per-connection handlers that create, join, leave and      *)
(* drive them.  A room's players Map is a sequence in insertion order.     *)
(* Positions, ready flags, names, chat and the times are left out, and so  *)
(* is who receives a broadcast.  A client sends 'playerJoin' first, as the  *)
(* MultiplayerManager does in onopen, and that gives it the id of its      *)
(* socket as playerId; until then its playerId is null.                    *)
(***************************************************************************)
MaxClients == 5   \* client sockets connected at the same time
MaxHosts == 3     \* of them, the clients that send race-state requests
MaxRooms == 1     \* room codes generateRoomCode draws from
MaxAnonymous == 1 \* connected clients that have not sent 'playerJoin' yet

maxRoomPlayers == 4

Clients == 1..MaxClients

HostClients == 1..MaxHosts

Codes == 1..MaxRooms

\* null, where the other values are socket ids or room codes
None == 0

NoRoom == [exists |-> FALSE]

NoRequest ==
    [event |-> NULL, roomCode |-> None, fromHost |-> FALSE, emits |-> <<>>]

Absent == [connected |-> FALSE, currentRoom |-> None, playerId |-> None]

ServerInit ==
    /\ gameServer = [rooms |-> [code \in Codes |-> NoRoom],
                     roomCodes |-> {},
                     players |-> {}]
    /\ io = [c \in Clients |-> Absent]
    /\ handled = NoRequest

\* socket.emit, io.to(room).emit, socket.to(room).emit
Emit(to, event, message) == [to |-> to, event |-> event, message |-> message]

Player(id, isHost) == [id |-> id, isHost |-> isHost]

\* room.players.has(id), and the place of id in the Map's order
Has(players, id) == \E i \in 1..Len(players) : players[i].id = id

IndexOf(players, id) == CHOOSE i \in 1..Len(players) : players[i].id = id

\* room.players.set(id, player): a key the Map has keeps its place.
MapSet(players, player) ==
    IF Has(players, player.id)
    THEN [players EXCEPT ![IndexOf(players, player.id)] = player]
    ELSE Append(players, player)

\* room.players.delete(id)
MapDelete(players, id) ==
    LET i == IndexOf(players, id)
    IN SubSeq(players, 1, i - 1) \o SubSeq(players, i + 1, Len(players))

\* this.rooms.get(roomCode)
RoomOf(gs, code) ==
    IF code \in Codes THEN gs.rooms[code] ELSE NoRoom

\* createRoom(hostId, hostName), with the code generateRoomCode drew;
\* handedOver is history: the host role was reassigned since.
createRoom(gs, code, hostId) ==
    [gs EXCEPT !.roomCodes = @ \cup {code},
               !.rooms[code] = [exists |-> TRUE,
                                hostId |-> hostId,
                                players |-> <<Player(hostId, TRUE)>>,
                                gameState |-> "lobby",
                                handedOver |-> FALSE]]

joinRoomWithoutLimit(gs, roomCode, ofPlayer) ==
    LET room == RoomOf(gs, roomCode)
    IN IF ~room.exists THEN [error |-> "Room not found", gs |-> gs]
       ELSE IF room.gameState = "racing"
       THEN [error |-> "Race in progress", gs |-> gs]
       ELSE [error |-> NULL,
             gs |-> [gs EXCEPT !.rooms[roomCode].players =
                                  MapSet(@, Player(ofPlayer, FALSE))]]

\* joinRoom(roomCode, playerId, playerName): the error thrown, if any, and
\* the server afterwards.
joinRoom(gs, roomCode, ofPlayer) ==
    LET room == RoomOf(gs, roomCode)
    IN IF ~room.exists THEN [error |-> "Room not found", gs |-> gs]
       ELSE IF Len(room.players) >= maxRoomPlayers
       THEN [error |-> "Room is full", gs |-> gs]
       ELSE IF room.gameState = "racing"
       THEN [error |-> "Race in progress", gs |-> gs]
       ELSE [error |-> NULL,
             gs |-> [gs EXCEPT !.rooms[roomCode].players =
                                  MapSet(@, Player(ofPlayer, FALSE))]]

\* leaveRoom(roomCode, playerId): the room returned (NoRoom for null) and
\* the server afterwards.
leaveRoom(gs, roomCode, ofPlayer) ==
    LET room == RoomOf(gs, roomCode)
    IN IF ~room.exists \/ ~Has(room.players, ofPlayer)
       THEN [room |-> NoRoom, gs |-> gs]
       ELSE LET player == room.players[IndexOf(room.players, ofPlayer)]
                rest == MapDelete(room.players, ofPlayer)
                left == [room EXCEPT !.players = rest]
            IN IF ~player.isHost
               THEN [room |-> left, gs |-> [gs EXCEPT !.rooms[roomCode] = left]]
               ELSE IF Len(rest) > 0
               THEN LET handedOver ==
                            [left EXCEPT !.players[1].isHost = TRUE,
                                         !.hostId = rest[1].id,
                                         !.handedOver = TRUE]
                    IN [room |-> handedOver,
                        gs |-> [gs EXCEPT !.rooms[roomCode] = handedOver]]
               ELSE [room |-> left,
                     gs |-> [gs EXCEPT !.rooms[roomCode] = NoRoom,
                                       !.roomCodes = @ \ {roomCode}]]

MayDriveAsMember(room, ofPlayer) ==
    room.exists /\ Has(room.players, ofPlayer)

\* room && room.hostId === playerId
MayDrive(room, ofPlayer) ==
    room.exists /\ room.hostId = ofPlayer

---------------------------------------------------------------------------
ServerFrame == UNCHANGED nonServerVars

\* The requesting socket's playerId is the hostId of the room it is in.
FromHost(c) ==
    LET room == RoomOf(gameServer, io[c].currentRoom)
    IN room.exists /\ io[c].playerId = room.hostId

Request(event, code, fromHost, emits) ==
    [event |-> event, roomCode |-> code, fromHost |-> fromHost,
     emits |-> emits]

\* io.on('connection')
OnConnection(c) ==
    /\ ~io[c].connected
    /\ Cardinality({a \in Clients : io[a].connected /\ io[a].playerId = None})
         < MaxAnonymous
    /\ io' = [io EXCEPT ![c] = [Absent EXCEPT !.connected = TRUE]]
    /\ handled' = Request("connection", None, FALSE, <<>>)
    /\ UNCHANGED gameServer
    /\ ServerFrame

\* socket.on('playerJoin')
OnPlayerJoin(c) ==
    /\ io[c].connected
    /\ io' = [io EXCEPT ![c].playerId = c]
    /\ gameServer' = [gameServer EXCEPT !.players = @ \cup {c}]
    /\ handled' = Request("playerJoin", None, FALSE, <<>>)
    /\ ServerFrame

\* socket.on('createRoom')
OnCreateRoom(c) ==
    /\ io[c].connected
    /\ io[c].playerId # None
    /\ \E code \in Codes \ gameServer.roomCodes :
         /\ gameServer' = createRoom(gameServer, code, io[c].playerId)
         /\ io' = [io EXCEPT ![c].currentRoom = code]
         /\ handled' = Request("createRoom", code, FALSE,
                               <<Emit("socket", "roomCreated", code)>>)
    /\ ServerFrame

\* socket.on('joinRoom')
OnJoinRoom(c, roomCode) ==
    /\ io[c].connected
    /\ io[c].playerId # None
    /\ LET res == joinRoom(gameServer, roomCode, io[c].playerId)
       IN /\ gameServer' = res.gs
          /\ io' = IF res.error = NULL
                   THEN [io EXCEPT ![c].currentRoom = roomCode]
                   ELSE io
          /\ handled' =
               Request("joinRoom", roomCode, FALSE,
                       IF res.error = NULL
                       THEN <<Emit("room", "playerJoined", io[c].playerId),
                              Emit("socket", "roomJoined", roomCode)>>
                       ELSE <<Emit("socket", "error", res.error)>>)
    /\ ServerFrame

\* socket.on('leaveRoom')
OnLeaveRoom(c) ==
    /\ io[c].connected
    /\ io[c].playerId # None
    /\ IF io[c].currentRoom = None
       THEN /\ UNCHANGED <<gameServer, io>>
            /\ handled' = Request("leaveRoom", None, FALSE, <<>>)
       ELSE LET res == leaveRoom(gameServer, io[c].currentRoom, io[c].playerId)
            IN /\ gameServer' = res.gs
               /\ io' = [io EXCEPT ![c].currentRoom = None]
               /\ handled' =
                    Request("leaveRoom", io[c].currentRoom, FALSE,
                            IF res.room.exists /\ Len(res.room.players) > 0
                            THEN <<Emit("room", "playerLeft", io[c].playerId),
                                   Emit("room", "roomUpdated",
                                        io[c].currentRoom)>>
                            ELSE <<>>)
    /\ ServerFrame

\* socket.on('disconnect')
OnDisconnect(c) ==
    /\ io[c].connected
    /\ LET res == IF io[c].currentRoom = None
                  THEN [gs |-> gameServer]
                  ELSE leaveRoom(gameServer, io[c].currentRoom, io[c].playerId)
       IN gameServer' = [res.gs EXCEPT !.players = @ \ {io[c].playerId}]
    /\ io' = [io EXCEPT ![c] = Absent]
    /\ handled' =
         IF io[c].currentRoom = None
         THEN Request("disconnect", None, FALSE, <<>>)
         ELSE Request("disconnect", io[c].currentRoom, FALSE,
                      <<Emit("others", "playerLeft", io[c].playerId)>>)
    /\ ServerFrame

\* What a handler of the three race-state requests does for the host.
DriveRace(c, event, gameState, broadcast) ==
    /\ io[c].connected
    /\ io[c].playerId # None
    /\ LET code == io[c].currentRoom
           room == RoomOf(gameServer, code)
       IN IF code # None /\ MayDrive(room, io[c].playerId)
          THEN /\ gameServer' =
                    [gameServer EXCEPT !.rooms[code].gameState = gameState]
               /\ handled' = Request(event, code, FromHost(c),
                                     <<Emit("room", broadcast, gameState)>>)
          ELSE /\ UNCHANGED gameServer
               /\ handled' = Request(event, None, FromHost(c), <<>>)
    /\ UNCHANGED io
    /\ ServerFrame

\* socket.on('startRace')
OnStartRace(c) == DriveRace(c, "startRace", "racing", "raceStarted")

\* socket.on('raceFinished')
OnRaceFinished(c) == DriveRace(c, "raceFinished", "finished", "raceFinished")

\* socket.on('gameStateUpdate'): data.gameState || room.gameState
OnGameStateUpdate(c) ==
    \E gameState \in {NULL, "lobby", "racing", "finished"} :
        LET room == RoomOf(gameServer, io[c].currentRoom)
        IN DriveRace(c, "gameStateUpdate",
                 IF gameState = NULL /\ room.exists
                 THEN room.gameState ELSE gameState,
                 "gameStateUpdate")

---------------------------------------------------------------------------
(* Claims about the rooms. *)

\* A join that the claim says is refused: no such room, a full room, or a
\* race in progress.
MustBeRefused(gs, roomCode) ==
    LET room == RoomOf(gs, roomCode)
    IN \/ ~room.exists
       \/ Len(room.players) >= maxRoomPlayers
       \/ room.gameState = "racing"

\* C17: every room holds at most 4 players, and a joinRoom on a room that
\* is full, does not exist or is racing emits an error to the caller
\* alone and leaves the rooms, the codes and the caller's currentRoom as
\* they were.
C17_RoomsHoldAtMostFour ==
    /\ [](\A code \in Codes :
            gameServer.rooms[code].exists
              => Len(gameServer.rooms[code].players) <= maxRoomPlayers)
    /\ [][ handled'.event = "joinRoom"
             /\ MustBeRefused(gameServer, handled'.roomCode)
           => /\ Len(handled'.emits) = 1
              /\ handled'.emits[1].to = "socket"
              /\ handled'.emits[1].event = "error"
              /\ handled'.emits[1].message # NULL
              /\ gameServer'.rooms = gameServer.rooms
              /\ gameServer'.roomCodes = gameServer.roomCodes
              /\ io' = io ]_vars

\* A fifth player has just been turned away from a full room.
C17_Witness ==
    /\ handled.event = "joinRoom"
    /\ handled.emits = <<Emit("socket", "error", "Room is full")>>
    /\ Len(gameServer.rooms[handled.roomCode].players) = maxRoomPlayers
    /\ \E c \in Clients :
         /\ io[c].playerId # None
         /\ io[c].currentRoom = None
         /\ ~Has(gameServer.rooms[handled.roomCode].players, io[c].playerId)

---------------------------------------------------------------------------
(* The host's requests on the client: startRace(), sendGameStateUpdate(). *)

\* The host of a room as the room records it: hostId is a key of players,
\* and that member and no other has isHost = true.
HostIsMember(room) ==
    /\ Has(room.players, room.hostId)
    /\ \A i \in 1..Len(room.players) :
          room.players[i].isHost <=> room.players[i].id = room.hostId

\* C27 (as stated): every room in the registry has a host that is one of
\* its members, exactly that member has isHost = true, and no room without
\* members stays in the registry.  Violated: joinRoom for the host of the
\* room overwrites its entry with isHost false, and when it then leaves,
\* leaveRoom neither hands the role over nor deletes the room.
C27_RoomHasMemberHost ==
    \A code \in Codes :
        gameServer.rooms[code].exists
            => /\ HostIsMember(gameServer.rooms[code])
               /\ Len(gameServer.rooms[code].players) > 0

\* What holds instead: a room's hostId is unchanged by joinRoom and names
\* the creator or the member leaveRoom last promoted; a room is in the
\* registry exactly when its code is in roomCodes, and at most one member
\* has isHost = true.
RoomHasAtMostOneHostFlag ==
    \A code \in Codes :
        /\ gameServer.rooms[code].exists <=> code \in gameServer.roomCodes
        /\ gameServer.rooms[code].exists
             => \A i, j \in 1..Len(gameServer.rooms[code].players) :
                    /\ gameServer.rooms[code].players[i].isHost
                    /\ gameServer.rooms[code].players[j].isHost
                    => i = j

GameStates == {"lobby", "racing", "finished"}

\* startRace()
StartRace ==
    /\ sent' = IF ~mgr.isHost THEN <<>>
               ELSE sendMessage(World, "startRace", [timestamp |-> clock],
                                clock)
    /\ lastEvent' = "startRace"
    /\ UNCHANGED <<mgr, sockets, staleTimers, reconnectTimers, delays>>
    /\ UNCHANGED <<lastSyncTime, localKart, updateTimes>>
    /\ UNCHANGED <<syncVars, offlineVars, rejoinVars>>

\* sendGameStateUpdate(gameState)
SendGameStateUpdate ==
    /\ \E gameState \in GameStates :
         sent' = IF ~mgr.isHost \/ ~mgr.connected THEN <<>>
                 ELSE sendMessage(World, "gameStateUpdate",
                                  [gameState |-> gameState,
                                   timestamp |-> clock],
                                  clock)
    /\ lastEvent' = "sendGameStateUpdate"
    /\ UNCHANGED <<mgr, sockets, staleTimers, reconnectTimers, delays>>
    /\ UNCHANGED <<lastSyncTime, localKart, updateTimes>>
    /\ UNCHANGED <<syncVars, offlineVars, rejoinVars>>

\* Client and server share no state; each is followed while the other has
\* not moved.
ServerQuiet == ServerInit

ClientQuiet == MpInit /\ sent = <<>>

\* The rooms under createRoom, joinRoom, leaveRoom and disconnect events of
\* every client, and startRace, which makes a room one that is racing.
RoomsNext ==
    \/ \E c \in Clients : OnConnection(c)
    \/ \E c \in Clients : OnPlayerJoin(c)
    \/ \E c \in Clients : OnCreateRoom(c)
    \/ \E c \in Clients, roomCode \in Codes : OnJoinRoom(c, roomCode)
    \/ \E c \in Clients : OnLeaveRoom(c)
    \/ \E c \in Clients : OnDisconnect(c)
    \/ \E c \in Clients : OnStartRace(c)

\* The race-state requests: every handler of the server for the first
\* MaxHosts clients, or the client's side of the requests.
HostNext ==
    \/ ClientQuiet /\ \E c \in HostClients : OnConnection(c)
    \/ ClientQuiet /\ \E c \in HostClients : OnPlayerJoin(c)
    \/ ClientQuiet /\ \E c \in HostClients : OnCreateRoom(c)
    \/ ClientQuiet /\ \E c \in HostClients, roomCode \in Codes :
                          OnJoinRoom(c, roomCode)
    \/ ClientQuiet /\ \E c \in HostClients : OnLeaveRoom(c)
    \/ ClientQuiet /\ \E c \in HostClients : OnDisconnect(c)
    \/ ClientQuiet /\ \E c \in HostClients : OnStartRace(c)
    \/ ClientQuiet /\ \E c \in HostClients : OnRaceFinished(c)
    \/ ClientQuiet /\ \E c \in HostClients : OnGameStateUpdate(c)
    \/ ServerQuiet /\ CreateRoom
    \/ ServerQuiet /\ LeaveRoom
    \/ ServerQuiet /\ \E r \in BagToSet(sockets) : SocketOpen(r)
    \/ ServerQuiet /\ \E r \in BagToSet(sockets) : SocketClose(r)
    \/ ServerQuiet /\ RecvRoomJoined
    \/ ServerQuiet /\ StartRace
    \/ ServerQuiet /\ SendGameStateUpdate

DriveEvents == {"startRace", "raceFinished", "gameStateUpdate"}

HostRequests == {"startRace", "gameStateUpdate"}

\* C19: on the server a room's gameState changes, and a race-state
\* broadcast goes out, only in the handler of startRace, raceFinished or
\* gameStateUpdate for a socket whose playerId is the hostId the room has
\* at that time, also after the host role was handed over; on the client
\* startRace() and sendGameStateUpdate() send a message only if isHost.
C19_OnlyHostDrivesRace ==
    /\ [][ \A code \in Codes :
             /\ gameServer.rooms[code].exists
             /\ gameServer'.rooms[code].exists
             /\ gameServer'.rooms[code].gameState
                  # gameServer.rooms[code].gameState
             => /\ handled'.event \in DriveEvents
                /\ handled'.roomCode = code
                /\ handled'.fromHost ]_vars
    /\ [](handled.event \in DriveEvents /\ handled.emits # <<>>
            => handled.fromHost)
    /\ [](\A i \in 1..Len(sent) :
            sent[i].type \in HostRequests => mgr.isHost)

\* The host a room got when its first host left has started the race.
C19_Witness ==
    /\ handled.event = "startRace"
    /\ handled.fromHost
    /\ handled.emits = <<Emit("room", "raceStarted", "racing")>>
    /\ gameServer.rooms[handled.roomCode].handedOver
    /\ gameServer.rooms[handled.roomCode].gameState = "racing"

\* The client, as host, has handed a startRace request to its socket.
HostSendsStartRace ==
    /\ Len(sent) = 1
    /\ sent[1].type = "startRace"
    /\ mgr.isHost

---------------------------------------------------------------------------
(* Claims about the remote players' karts. *)

\* C24 (as stated, in part): in multiplayer mode every physics.update of a
\* frame in which the room has a remote player is handed a kart list that
\* holds that player's kart.  Violated: initializeRace creates the player's
\* kart only, and updateGame never reads getInterpolatedPlayerPosition.
C24_RemoteKartsTakePart ==
    game.lastUpdate.gameMode = "multiplayer" /\ game.lastUpdate.remote
        => \E i \in DOMAIN game.lastUpdate.karts :
               game.lastUpdate.karts[i] = RemotePlayer

\* What holds instead: a frame in multiplayer mode updates the local
\* player's kart and nothing else, and leaves the pose last interpolated
\* as it was.
OnlyLocalKartUpdated ==
    /\ game.lastUpdate.gameMode = "multiplayer"
          => game.lastUpdate.karts = <<"player">>
    /\ [][lastEvent' = "updateGame" => interpolated' = interpolated]_vars

(***************************************************************************)
(*                           Specifications                                *)
(***************************************************************************)
ElseIdle == SendIdle /\ RejoinIdle /\ GameIdle /\ ServerInit

Init == MpInit /\ SyncInit /\ RaceIdle /\ PhysIdle /\ AiIdle /\ ElseIdle

Spec == Init /\ [][Next]_vars

SpecSync == Init /\ [][SyncNext]_vars

InitRace == MpInit /\ SyncInit /\ RaceInit /\ PhysIdle /\ AiIdle /\ ElseIdle

SpecRace == InitRace /\ [][RaceNext]_vars

SpecRank == InitRace /\ [][RankNext]_vars

InitPhysics ==
    MpInit /\ SyncInit /\ RaceIdle /\ PhysInit /\ AiIdle /\ ElseIdle

SpecPhysics == InitPhysics /\ [][PhysNext]_vars

InitAI == MpInit /\ SyncInit /\ RaceIdle /\ PhysIdle /\ AiInit /\ ElseIdle

SpecAI == InitAI /\ [][AiNext]_vars

\* The clock of the outbound synchronisation starts at FirstSendTime.
InitSend ==
    /\ MpInit
    /\ present = FALSE
    /\ positionHistory = <<>>
    /\ clock = FirstSendTime
    /\ interpolated = NoPosition
    /\ syncOp = "none"
    /\ RaceIdle /\ PhysIdle /\ AiIdle /\ ElseIdle

SpecSend == InitSend /\ [][SendNext]_vars

SpecRejoin == Init /\ [][RejoinNext]_vars /\ RejoinFairness

SpecGame == InitRace /\ [][GameNext]_vars

SpecRooms == Init /\ [][RoomsNext]_vars

SpecHost == Init /\ [][HostNext]_vars

SpecMessage == Init /\ [][MessageNext]_vars

SpecRemote == Init /\ [][RemoteNext]_vars

=============================================================================
